---------------------------- MODULE Spec2Model ----------------------------
(***************************************************************************)
(* A model of critica's diff pipeline:                                     *)
(*   - parser.ParseDiff          (internal/parser/parser.go)               *)
(*   - ui.computeLinePairs       (internal/ui/renderer.go)                 *)
(*   - ui.splitInlineSegments and Renderer.buildLineContent                *)
(*                                (internal/ui/renderer.go)                *)
(*                                                                         *)
(* Text is modelled as sequences of one-character strings, so that every   *)
(* prefix test and regular expression of the parser is evaluated on the    *)
(* characters of the line, as the code does.                               *)
(***************************************************************************)
EXTENDS Integers, Sequences, FiniteSets, TLC

(***************************************************************************)
(* Bounds of the model.                                                    *)
(***************************************************************************)
\* number of input lines ParseDiff reads in one run
MaxLines == 6

\* number of lines of the hunk handed to computeLinePairs
MaxPairLines == 5

\* number of bytes of the strings handed to splitInlineSegments
MaxTextLen == 3

(***************************************************************************)
(* Characters and string helpers.                                          *)
(***************************************************************************)
DigitChars == <<"0", "1", "2", "3", "4", "5", "6", "7", "8", "9">>

Digits == {DigitChars[k] : k \in 1..Len(DigitChars)}

DigitVal(c) == (CHOOSE k \in 1..Len(DigitChars) : DigitChars[k] = c) - 1

\* strings.HasPrefix(s, prefix)
HasPrefix(s, prefix) ==
    /\ Len(s) >= Len(prefix)
    /\ SubSeq(s, 1, Len(prefix)) = prefix

\* the literal lit occurs in s at position p (1-based)
LitAt(s, p, lit) ==
    /\ p >= 1
    /\ p + Len(lit) - 1 <= Len(s)
    /\ SubSeq(s, p, p + Len(lit) - 1) = lit

\* s[p:] of Go, for a 1-based p
From(s, p) == SubSeq(s, p, Len(s))

\* strconv.Atoi on a string of decimal digits (the only strings the hunk
\* header expression hands to it)
RECURSIVE AtoiFrom(_, _, _)
AtoiFrom(s, p, acc) ==
    IF p > Len(s) THEN acc
    ELSE AtoiFrom(s, p + 1, acc * 10 + DigitVal(s[p]))

Atoi(s) == AtoiFrom(s, 1, 0)

\* filepath.Ext: the suffix beginning at the final dot of the final path
\* element; empty if there is no dot
RECURSIVE ExtFrom(_, _)
ExtFrom(path, k) ==
    IF k < 1 \/ path[k] = "/" THEN <<>>
    ELSE IF path[k] = "." THEN From(path, k)
    ELSE ExtFrom(path, k - 1)

Ext(path) == ExtFrom(path, Len(path))

(***************************************************************************)
(* The literals the parser tests for.                                      *)
(***************************************************************************)
DiffGitLit == <<"d", "i", "f", "f", " ", "-", "-", "g", "i", "t", " ", "a", "/">>

BSlashLit == <<" ", "b", "/">>

NewFileModeLit == <<"n", "e", "w", " ", "f", "i", "l", "e", " ", "m", "o", "d", "e">>

DeletedFileModeLit ==
    <<"d", "e", "l", "e", "t", "e", "d", " ", "f", "i", "l", "e", " ", "m", "o", "d", "e">>

RenameFromLit == <<"r", "e", "n", "a", "m", "e", " ", "f", "r", "o", "m">>

IndexLit == <<"i", "n", "d", "e", "x", " ">>

BinaryFilesLit == <<"B", "i", "n", "a", "r", "y", " ", "f", "i", "l", "e", "s">>

SimilarityIndexLit ==
    <<"s", "i", "m", "i", "l", "a", "r", "i", "t", "y", " ", "i", "n", "d", "e", "x">>

RenameToLit == <<"r", "e", "n", "a", "m", "e", " ", "t", "o">>

HunkOpenLit == <<"@", "@", " ", "-">>

HunkPlusLit == <<" ", "+">>

HunkCloseLit == <<" ", "@", "@">>

(***************************************************************************)
(* Line types (parser.LineType).                                           *)
(***************************************************************************)
LineUnchanged == "LineUnchanged"

LineAdded == "LineAdded"

LineDeleted == "LineDeleted"

LineContext == "LineContext"

(***************************************************************************)
(* The three regular expressions of the parser.                            *)
(***************************************************************************)
\* diffHeaderRegex  ^diff --git a/(.+) b/(.+)$  : the positions k at which
\* " b/" may separate two non-empty groups; the greedy first group takes
\* the last of them.
DiffHeaderSplits(line) ==
    {k \in (Len(DiffGitLit) + 2)..(Len(line) - Len(BSlashLit)) :
        LitAt(line, k, BSlashLit)}

MatchDiffHeader(line) ==
    IF HasPrefix(line, DiffGitLit) /\ DiffHeaderSplits(line) # {}
    THEN LET k == CHOOSE m \in DiffHeaderSplits(line) :
                     \A n \in DiffHeaderSplits(line) : n <= m
         IN  [ok |-> TRUE,
              old |-> SubSeq(line, Len(DiffGitLit) + 1, k - 1),
              new |-> From(line, k + Len(BSlashLit))]
    ELSE [ok |-> FALSE, old |-> <<>>, new |-> <<>>]

\* filePathRegex  ^[+-]{3} (.+)$
MatchFilePath(line) ==
    /\ Len(line) >= 5
    /\ \A k \in 1..3 : line[k] \in {"+", "-"}
    /\ line[4] = " "

\* the end (exclusive) of the run of digits that starts at p
RECURSIVE DigitRunEnd(_, _)
DigitRunEnd(line, p) ==
    IF p <= Len(line) /\ line[p] \in Digits
    THEN DigitRunEnd(line, p + 1)
    ELSE p

\* the optional group (?:,(\d+))? at position p
OptCount(line, p) ==
    IF /\ p <= Len(line)
       /\ line[p] = ","
       /\ DigitRunEnd(line, p + 1) > p + 1
    THEN [next |-> DigitRunEnd(line, p + 1),
          text |-> SubSeq(line, p + 1, DigitRunEnd(line, p + 1) - 1)]
    ELSE [next |-> p, text |-> <<>>]

\* hunkHeaderRegex  ^@@ -(\d+)(?:,(\d+))? \+(\d+)(?:,(\d+))? @@
MatchHunkHeader(line) ==
    LET p1 == Len(HunkOpenLit) + 1
        e1 == DigitRunEnd(line, p1)
        c1 == OptCount(line, e1)
        p3 == c1.next + Len(HunkPlusLit)
        e3 == DigitRunEnd(line, p3)
        c3 == OptCount(line, e3)
        no == [ok |-> FALSE, m1 |-> <<>>, m2 |-> <<>>, m3 |-> <<>>, m4 |-> <<>>]
    IN  IF /\ HasPrefix(line, HunkOpenLit)
           /\ e1 > p1
           /\ LitAt(line, c1.next, HunkPlusLit)
           /\ e3 > p3
           /\ LitAt(line, c3.next, HunkCloseLit)
        THEN [ok |-> TRUE,
              m1 |-> SubSeq(line, p1, e1 - 1),
              m2 |-> c1.text,
              m3 |-> SubSeq(line, p3, e3 - 1),
              m4 |-> c3.text]
        ELSE no

(***************************************************************************)
(* The input lines the model feeds to ParseDiff.  strings.Split cuts the   *)
(* diff text at every "\n", so a line can be any text without a newline.   *)
(***************************************************************************)
HeaderXY == DiffGitLit \o <<"x", " ", "b", "/", "y">>

HeaderZC == DiffGitLit \o <<"z", ".", "c", " ", "b", "/", "z", ".", "c">>

HunkZeroLine ==
    <<"@", "@", " ", "-", "0", ",", "0", " ", "+", "1", ",", "1", " ", "@", "@">>

HunkPlainLine == <<"@", "@", " ", "-", "2", " ", "+", "3", " ", "@", "@">>

\* HunkPlainLine with its two counts written out
HunkOnesLine ==
    <<"@", "@", " ", "-", "2", ",", "1", " ", "+", "3", ",", "1", " ", "@", "@">>

\* hunk header lines with a field that is not a number: the old start, and
\* the old count
HunkBadStartLine == <<"@", "@", " ", "-", "x", " ", "+", "3", " ", "@", "@">>

HunkBadCountLine ==
    <<"@", "@", " ", "-", "2", ",", "y", " ", "+", "3", " ", "@", "@">>

MalformedHunkLines == { HunkBadStartLine, HunkBadCountLine }

StructuralLines ==
    { HeaderXY, HeaderZC, HunkZeroLine, HunkPlainLine,
      <<"+", "a">>, <<"-", "b">>, <<" ", "c">>,
      <<"-", "-", "-", " ", "a">> }

FlagLines == { NewFileModeLit, DeletedFileModeLit, RenameFromLit }

NoiseLines ==
    { <<>>, <<"\\">>, IndexLit \o <<"1">>, <<"x">> } \cup MalformedHunkLines

Vocab == StructuralLines \cup FlagLines \cup NoiseLines

(***************************************************************************)
(* State of one run of ParseDiff.                                          *)
(*   i            loop index: the number of lines read so far              *)
(*   files        the output slice                                         *)
(*   currentFile  <<>> for nil, <<f>> for a pointer to the FileDiff f      *)
(*   currentHunk  <<>> for nil, <<h>> for a pointer to the Hunk h          *)
(*   oldLineNum, newLineNum   the running counters                         *)
(*   pc           "loop" while reading, "done" after the return            *)
(*   err          TRUE iff an error was returned                           *)
(*   nonEmpty     TRUE once the text read so far is not the empty string   *)
(*   hist         history of the input read: for each `diff --git` line    *)
(*                the header line, the flag lines that followed it, and    *)
(*                for each hunk header line that followed it the header    *)
(*                line and the body lines (lines with first character      *)
(*                '+', '-' or ' ') that followed it                        *)
(***************************************************************************)
VARIABLES i, files, currentFile, currentHunk, oldLineNum, newLineNum,
          pc, err, nonEmpty, hist

parserVars == <<i, files, currentFile, currentHunk, oldLineNum, newLineNum,
                pc, err, nonEmpty, hist>>

(***************************************************************************)
(* State of one call of computeLinePairs.                                  *)
(*   pairLines  the argument lines                                         *)
(*   pairs      the map returned, a function from Go's 0-based indices     *)
(*   pairPc     "call" before the call, "done" after it                    *)
(***************************************************************************)
VARIABLES pairLines, pairs, pairPc

pairVars == <<pairLines, pairs, pairPc>>

(***************************************************************************)
(* State of one call of Renderer.buildLineContent.                         *)
(*   segText, segCounterpart  line.Content and counterpart, as bytes       *)
(*   segments   what splitInlineSegments returned                          *)
(*   rendered   the string built, as a sequence of styled pieces           *)
(*   segPc      "call", then "split" after splitInlineSegments, then       *)
(*              "built" after the return                                   *)
(***************************************************************************)
VARIABLES segText, segCounterpart, segments, rendered, segPc

segVars == <<segText, segCounterpart, segments, rendered, segPc>>

(***************************************************************************)
(* The text handed to ParseDiff when it is a given one.                    *)
(*   untracked  the untracked files getUntrackedFilesDiff reads, each a    *)
(*              path and the content of the file                           *)
(*   diffText   the lines of the text given to ParseDiff; <<>> when the    *)
(*              lines are chosen one by one as they are read               *)
(***************************************************************************)
VARIABLES untracked, diffText

textVars == <<untracked, diffText>>

(***************************************************************************)
(* State of one run of the root command (package cmd, unnamed/part_006).   *)
(*   configFile  the Config decoded from config.json, [missing |-> TRUE]   *)
(*               if there is no such file                                  *)
(*   given       the flags given on the command line, each with its value  *)
(*   flags       the package variables the flags are bound to              *)
(*   appConfig   <<>> for nil, <<c>> for a pointer to the Config c         *)
(*   settings    what runDiff works with                                   *)
(*   cmdPc       "flags" after the flags are parsed, "config" after        *)
(*               applyConfig, "run" after runDiff, "failed" after an error *)
(***************************************************************************)
VARIABLES configFile, given, flags, appConfig, settings, cmdPc

cmdVars == <<configFile, given, flags, appConfig, settings, cmdPc>>

(***************************************************************************)
(* State of the interactive program (ui/interactive.go 622-3303).          *)
(*   model     the model value Bubble Tea holds between two calls of       *)
(*             Update; <<>> outside the interactive program                *)
(*   inflight  the commands Update returned whose message has not been     *)
(*             delivered yet, each with what its closure captured          *)
(*   uiPc      "running" until Update returns tea.Quit, then "quit"        *)
(*   user      the keys the user presses and the heights the window takes  *)
(*             in this run                                                 *)
(***************************************************************************)
VARIABLES model, inflight, uiPc, user

uiVars == <<model, inflight, uiPc, user>>

vars == <<parserVars, pairVars, segVars, textVars, cmdVars, uiVars>>

ContentPrefixes == {"+", "-", " "}

\* the history after one more input line
HistRead(h, line) ==
    IF MatchDiffHeader(line).ok
    THEN Append(h, [header |-> line, flags |-> {}, hunks |-> <<>>])
    ELSE IF h = <<>> THEN h
    ELSE LET f  == h[Len(h)]
             hs == f.hunks
         IN  IF \E lit \in FlagLines : HasPrefix(line, lit)
             THEN [h EXCEPT ![Len(h)].flags =
                      @ \cup {CHOOSE lit \in FlagLines : HasPrefix(line, lit)}]
             ELSE IF MatchHunkHeader(line).ok
             THEN [h EXCEPT ![Len(h)].hunks =
                      Append(hs, [header |-> line, body |-> <<>>])]
             ELSE IF hs # <<>> /\ Len(line) > 0 /\ line[1] \in ContentPrefixes
             THEN [h EXCEPT ![Len(h)].hunks[Len(hs)].body = Append(@, line)]
             ELSE h

(***************************************************************************)
(* The pieces of the loop body.                                            *)
(***************************************************************************)
\* lines 73-75 as a plausible slip: a file without hunks is not saved
SavePreviousFileWithHunks(fs, cf) ==
    IF cf # <<>> /\ cf[1].Hunks # <<>> THEN Append(fs, cf[1]) ELSE fs

\* lines 73-75: save the previous file if there is one
SavePreviousFile(fs, cf) ==
    IF cf # <<>> THEN Append(fs, cf[1]) ELSE fs

\* lines 78-82: the FileDiff a header line opens
NewFileDiff(m) ==
    [OldPath |-> m.old, NewPath |-> m.new,
     IsNew |-> FALSE, IsDeleted |-> FALSE, IsRenamed |-> FALSE,
     Extension |-> Ext(m.new), Hunks |-> <<>>]

\* lines 121-123: save the previous hunk into the current file
SavePreviousHunk(f, ch) ==
    IF ch # <<>> THEN [f EXCEPT !.Hunks = Append(@, ch[1])] ELSE f

\* lines 126-143 without lines 127-128 and 132-133, a plausible slip: a
\* count left out is parsed like one written, and strconv.Atoi("") is 0
NewHunkWithoutDefault(m) ==
    [OldStart |-> Atoi(m.m1),
     OldLines |-> Atoi(m.m2),
     NewStart |-> Atoi(m.m3),
     NewLines |-> Atoi(m.m4),
     Lines    |-> <<>>]

\* lines 126-143: the Hunk a hunk header line opens
NewHunk(m) ==
    [OldStart |-> Atoi(m.m1),
     OldLines |-> IF m.m2 # <<>> THEN Atoi(m.m2) ELSE 1,
     NewStart |-> Atoi(m.m3),
     NewLines |-> IF m.m4 # <<>> THEN Atoi(m.m4) ELSE 1,
     Lines    |-> <<>>]

\* lines 145-146 left out, a plausible slip: the counters run on
CountersCarriedOver(h, old, new) == <<old, new>>

\* lines 145-146: the counters after a hunk header
CountersAtHeader(h, old, new) == <<h.OldStart, h.NewStart>>

\* lines 157-160
ContentOf(line) == IF Len(line) > 1 THEN From(line, 2) ELSE <<>>

\* lines 164-169, 173-178, 182-187: the Line a content line yields
AddedLine(content, old, new) ==
    [Type |-> LineAdded, Content |-> content, OldLineNum |-> 0, NewLineNum |-> new]

DeletedLine(content, old, new) ==
    [Type |-> LineDeleted, Content |-> content, OldLineNum |-> old, NewLineNum |-> 0]

UnchangedLine(content, old, new) ==
    [Type |-> LineUnchanged, Content |-> content, OldLineNum |-> old, NewLineNum |-> new]

\* lines 162-194 with `case ' '` written as `default`, a plausible slip
SwitchCaseWithDefault(prefix) ==
    IF prefix = "+" THEN LineAdded
    ELSE IF prefix = "-" THEN LineDeleted
    ELSE LineUnchanged

\* lines 162-194: the case of the switch a prefix selects, LineContext
\* standing for "no case appends a line"
SwitchCase(prefix) ==
    IF prefix = "+" THEN LineAdded
    ELSE IF prefix = "-" THEN LineDeleted
    ELSE IF prefix = " " THEN LineUnchanged
    ELSE LineContext

\* the tests of lines 92-116, in the order of the code
IsNewFileMode(line) == HasPrefix(line, NewFileModeLit)

IsDeletedFileMode(line) ==
    ~IsNewFileMode(line) /\ HasPrefix(line, DeletedFileModeLit)

IsRenameFrom(line) ==
    /\ ~IsNewFileMode(line) /\ ~HasPrefix(line, DeletedFileModeLit)
    /\ HasPrefix(line, RenameFromLit)

IsFlagLine(line) ==
    \/ HasPrefix(line, NewFileModeLit)
    \/ HasPrefix(line, DeletedFileModeLit)
    \/ HasPrefix(line, RenameFromLit)

\* lines 106-111
IsSkippedMeta(line) ==
    \/ HasPrefix(line, IndexLit)
    \/ HasPrefix(line, BinaryFilesLit)
    \/ HasPrefix(line, SimilarityIndexLit)
    \/ HasPrefix(line, RenameToLit)

\* the line reaches the hunk header test of line 119
ReachesHunkTest(line) ==
    /\ ~MatchDiffHeader(line).ok
    /\ currentFile # <<>>
    /\ ~IsFlagLine(line)
    /\ ~IsSkippedMeta(line)
    /\ ~MatchFilePath(line)

\* the line reaches the switch of line 162
ReachesSwitch(line) ==
    /\ ReachesHunkTest(line)
    /\ ~MatchHunkHeader(line).ok
    /\ currentHunk # <<>>
    /\ Len(line) > 0

(***************************************************************************)
(* ParseDiff, one action per way through the loop body.                    *)
(***************************************************************************)
EmptyText == << <<>> >>

\* line 67: a line is left to read
Reading ==
    /\ pc = "loop"
    /\ IF diffText = <<>> THEN i < MaxLines
       ELSE diffText # EmptyText /\ i < Len(diffText)

\* line 68: the line read, lines[i]
InputLines ==
    IF diffText = <<>> THEN Vocab
    ELSE IF i < Len(diffText) THEN {diffText[i + 1]}
    ELSE {}

\* what every iteration does besides its own branch
Step(line) ==
    /\ i' = i + 1
    /\ nonEmpty' = (nonEmpty \/ i >= 1 \/ Len(line) > 0)
    /\ hist' = HistRead(hist, line)
    /\ UNCHANGED <<pc, err, pairVars, segVars, textVars, cmdVars, uiVars>>

\* lines 206-210 without the test of line 206, a plausible slip
ReturnWithoutError(fs) == [files |-> fs, err |-> FALSE]

\* lines 206-210: the return after the loop; nil is the empty sequence
ReturnAfterLoop(fs) ==
    [files |-> IF Len(fs) = 0 THEN <<>> ELSE fs, err |-> Len(fs) = 0]

\* lines 57-59 left out, a plausible slip: the empty text falls to the test
\* of line 206
ReturnErrorForEmptyText(fs) == [files |-> <<>>, err |-> TRUE]

\* lines 57-59: the return for the empty text
ReturnForEmptyText(fs) == [files |-> <<>>, err |-> FALSE]

\* lines 57-59
EmptyInput ==
    /\ pc = "loop" /\ i = 0
    /\ diffText \in {<<>>, EmptyText}
    /\ pc' = "done"
    /\ files' = ReturnForEmptyText(files).files
    /\ err' = ReturnForEmptyText(files).err
    /\ UNCHANGED <<i, currentFile, currentHunk, oldLineNum, newLineNum,
                   nonEmpty, hist, pairVars, segVars, textVars, cmdVars,
                   uiVars>>

\* lines 71-85
DiffHeader ==
    \E line \in InputLines :
        /\ Reading
        /\ MatchDiffHeader(line).ok
        /\ files' = SavePreviousFile(files, currentFile)
        /\ currentFile' = <<NewFileDiff(MatchDiffHeader(line))>>
        /\ currentHunk' = <<>>
        /\ Step(line)
        /\ UNCHANGED <<oldLineNum, newLineNum>>

\* lines 87-89
SkipBeforeFile ==
    \E line \in InputLines :
        /\ Reading
        /\ ~MatchDiffHeader(line).ok
        /\ currentFile = <<>>
        /\ Step(line)
        /\ UNCHANGED <<files, currentFile, currentHunk, oldLineNum, newLineNum>>

\* lines 92-95
NewFileMode ==
    \E line \in InputLines :
        /\ Reading
        /\ ~MatchDiffHeader(line).ok
        /\ currentFile # <<>>
        /\ IsNewFileMode(line)
        /\ currentFile' = <<[currentFile[1] EXCEPT !.IsNew = TRUE]>>
        /\ Step(line)
        /\ UNCHANGED <<files, currentHunk, oldLineNum, newLineNum>>

\* lines 96-99
DeletedFileMode ==
    \E line \in InputLines :
        /\ Reading
        /\ ~MatchDiffHeader(line).ok
        /\ currentFile # <<>>
        /\ IsDeletedFileMode(line)
        /\ currentFile' = <<[currentFile[1] EXCEPT !.IsDeleted = TRUE]>>
        /\ Step(line)
        /\ UNCHANGED <<files, currentHunk, oldLineNum, newLineNum>>

\* lines 100-103
RenameFrom ==
    \E line \in InputLines :
        /\ Reading
        /\ ~MatchDiffHeader(line).ok
        /\ currentFile # <<>>
        /\ IsRenameFrom(line)
        /\ currentFile' = <<[currentFile[1] EXCEPT !.IsRenamed = TRUE]>>
        /\ Step(line)
        /\ UNCHANGED <<files, currentHunk, oldLineNum, newLineNum>>

\* lines 106-111
SkipMeta ==
    \E line \in InputLines :
        /\ Reading
        /\ ~MatchDiffHeader(line).ok
        /\ currentFile # <<>>
        /\ ~IsFlagLine(line)
        /\ IsSkippedMeta(line)
        /\ Step(line)
        /\ UNCHANGED <<files, currentFile, currentHunk, oldLineNum, newLineNum>>

\* lines 114-116
SkipFilePath ==
    \E line \in InputLines :
        /\ Reading
        /\ ~MatchDiffHeader(line).ok
        /\ currentFile # <<>>
        /\ ~IsFlagLine(line)
        /\ ~IsSkippedMeta(line)
        /\ MatchFilePath(line)
        /\ Step(line)
        /\ UNCHANGED <<files, currentFile, currentHunk, oldLineNum, newLineNum>>

\* lines 119-148
HunkHeader ==
    \E line \in InputLines :
        /\ Reading
        /\ ReachesHunkTest(line)
        /\ MatchHunkHeader(line).ok
        /\ LET h == NewHunk(MatchHunkHeader(line))
               c == CountersAtHeader(h, oldLineNum, newLineNum)
           IN  /\ currentFile' = <<SavePreviousHunk(currentFile[1], currentHunk)>>
               /\ currentHunk' = <<h>>
               /\ oldLineNum' = c[1]
               /\ newLineNum' = c[2]
        /\ Step(line)
        /\ UNCHANGED files

\* lines 163-170
ContentAdded ==
    \E line \in InputLines :
        /\ Reading
        /\ ReachesSwitch(line)
        /\ SwitchCase(line[1]) = LineAdded
        /\ currentHunk' = <<[currentHunk[1] EXCEPT !.Lines =
               Append(@, AddedLine(ContentOf(line), oldLineNum, newLineNum))]>>
        /\ newLineNum' = newLineNum + 1
        /\ Step(line)
        /\ UNCHANGED <<files, currentFile, oldLineNum>>

\* lines 172-179
ContentDeleted ==
    \E line \in InputLines :
        /\ Reading
        /\ ReachesSwitch(line)
        /\ SwitchCase(line[1]) = LineDeleted
        /\ currentHunk' = <<[currentHunk[1] EXCEPT !.Lines =
               Append(@, DeletedLine(ContentOf(line), oldLineNum, newLineNum))]>>
        /\ oldLineNum' = oldLineNum + 1
        /\ Step(line)
        /\ UNCHANGED <<files, currentFile, newLineNum>>

\* lines 181-189
ContentUnchanged ==
    \E line \in InputLines :
        /\ Reading
        /\ ReachesSwitch(line)
        /\ SwitchCase(line[1]) = LineUnchanged
        /\ currentHunk' = <<[currentHunk[1] EXCEPT !.Lines =
               Append(@, UnchangedLine(ContentOf(line), oldLineNum, newLineNum))]>>
        /\ oldLineNum' = oldLineNum + 1
        /\ newLineNum' = newLineNum + 1
        /\ Step(line)
        /\ UNCHANGED <<files, currentFile>>

\* lines 151-154 and 191-194: an empty line, the "\ No newline" marker and
\* any other first character add nothing to the open hunk
IgnoredInHunk ==
    \E line \in InputLines :
        /\ Reading
        /\ ReachesHunkTest(line)
        /\ ~MatchHunkHeader(line).ok
        /\ currentHunk # <<>>
        /\ IF Len(line) = 0 THEN TRUE ELSE SwitchCase(line[1]) = LineContext
        /\ Step(line)
        /\ UNCHANGED <<files, currentFile, currentHunk, oldLineNum, newLineNum>>

\* line 151 false: no hunk is open
SkipOutsideHunk ==
    \E line \in InputLines :
        /\ Reading
        /\ ReachesHunkTest(line)
        /\ ~MatchHunkHeader(line).ok
        /\ currentHunk = <<>>
        /\ Step(line)
        /\ UNCHANGED <<files, currentFile, currentHunk, oldLineNum, newLineNum>>

\* lines 199-201 left out, a plausible slip: the open hunk is not saved
FinalFilesWithoutOpenHunk(fs, cf, ch) ==
    IF cf = <<>> THEN fs ELSE Append(fs, cf[1])

\* lines 199-204: the file with its last hunk, appended to the output
FinalFiles(fs, cf, ch) ==
    IF cf = <<>> THEN fs
    ELSE Append(fs, SavePreviousHunk(cf[1], ch))

\* lines 198-211: the end of the input.  strings.Split returns at least one
\* line, and a single empty line is the empty text that line 57 returns for.
Finish ==
    /\ pc = "loop" /\ i >= 1 /\ nonEmpty
    /\ diffText # <<>> => i = Len(diffText)
    /\ pc' = "done"
    /\ files' = ReturnAfterLoop(FinalFiles(files, currentFile, currentHunk)).files
    /\ err' = ReturnAfterLoop(FinalFiles(files, currentFile, currentHunk)).err
    /\ currentFile' =
         IF currentFile = <<>> THEN <<>>
         ELSE <<SavePreviousHunk(currentFile[1], currentHunk)>>
    /\ UNCHANGED <<i, currentHunk, oldLineNum, newLineNum, nonEmpty, hist,
                   pairVars, segVars, textVars, cmdVars, uiVars>>

InitParser ==
    /\ i = 0
    /\ files = <<>>
    /\ currentFile = <<>>
    /\ currentHunk = <<>>
    /\ oldLineNum = 0
    /\ newLineNum = 0
    /\ pc = "loop"
    /\ err = FALSE
    /\ nonEmpty = FALSE
    /\ hist = <<>>

NextParser ==
    \/ EmptyInput
    \/ DiffHeader
    \/ SkipBeforeFile
    \/ NewFileMode
    \/ DeletedFileMode
    \/ RenameFrom
    \/ SkipMeta
    \/ SkipFilePath
    \/ HunkHeader
    \/ ContentAdded
    \/ ContentDeleted
    \/ ContentUnchanged
    \/ IgnoredInHunk
    \/ SkipOutsideHunk
    \/ Finish

(***************************************************************************)
(* computeLinePairs (renderer.go 65-79).  Indices are Go's: line i of the  *)
(* slice is lines[i + 1] here, and the keys of the map are 0-based.        *)
(***************************************************************************)
EmptyMap == [k \in {} |-> <<>>]

MapPut(m, k, v) == [x \in (DOMAIN m) \cup {k} |-> IF x = k THEN v ELSE m[x]]

\* line 71 as a plausible slip: any line after a deletion is its partner
IsPairAfterDeleted(current, next) == current.Type = LineDeleted

\* line 71 as a plausible slip: the partner only must not be a deletion
IsPairNotDeleted(current, next) ==
    current.Type = LineDeleted /\ next.Type # LineDeleted

\* line 71
IsPair(current, next) ==
    current.Type = LineDeleted /\ next.Type = LineAdded

\* lines 72-73 as a plausible slip: each index keeps its own content
RecordPairOwn(m, k, current, next) ==
    MapPut(MapPut(m, k, current.Content), k + 1, next.Content)

\* lines 72-73
RecordPair(m, k, current, next) ==
    MapPut(MapPut(m, k, next.Content), k + 1, current.Content)

\* line 68 as a plausible slip: the loop runs to the last line
PairLoopBoundWhole(lines) == Len(lines)

\* line 68: the loop runs while i < len(lines)-1
PairLoopBound(lines) == Len(lines) - 1

\* the index expression s[k] of Go does not panic
InRange(s, k) == 0 <= k /\ k < Len(s)

\* the slice expression s[lo:hi] of Go does not panic
SliceInRange(s, lo, hi) == 0 <= lo /\ lo <= hi /\ hi <= Len(s)

\* lines 68-76: every index expression of the loop from index k on is in
\* range
RECURSIVE PairIndicesInRange(_, _)
PairIndicesInRange(lines, k) ==
    IF ~(k < PairLoopBound(lines)) THEN TRUE
    ELSE /\ InRange(lines, k)
         /\ InRange(lines, k + 1)
         /\ PairIndicesInRange(lines,
                IF IsPair(lines[k + 1], lines[k + 2]) THEN k + 2 ELSE k + 1)

\* lines 68-76: the loop from index k on
RECURSIVE PairLoop(_, _, _)
PairLoop(lines, k, m) ==
    IF ~(k < PairLoopBound(lines)) THEN m
    ELSE LET current == lines[k + 1]
             next    == lines[k + 2]
         IN  IF IsPair(current, next)
             THEN PairLoop(lines, k + 2, RecordPair(m, k, current, next))
             ELSE PairLoop(lines, k + 1, m)

computeLinePairs(lines) == PairLoop(lines, 0, EmptyMap)

\* The hunks the model hands to computeLinePairs: every sequence of
\* deleted, added and unchanged lines, numbered as ParseDiff numbers the
\* lines of a hunk that starts at 1, 1.
PairContents == { <<"x">>, <<"y">> }

PairKinds == { LineDeleted, LineAdded, LineUnchanged }

RECURSIVE StampFrom(_, _, _, _)
StampFrom(raw, k, old, new) ==
    IF k > Len(raw) THEN <<>>
    ELSE LET r == raw[k]
         IN  IF r[1] = LineAdded
             THEN <<AddedLine(r[2], old, new)>> \o StampFrom(raw, k + 1, old, new + 1)
             ELSE IF r[1] = LineDeleted
             THEN <<DeletedLine(r[2], old, new)>> \o StampFrom(raw, k + 1, old + 1, new)
             ELSE <<UnchangedLine(r[2], old, new)>>
                      \o StampFrom(raw, k + 1, old + 1, new + 1)

\* the kinds and contents of the lines of a hunk of n lines
RawHunks(n) == [1..n -> PairKinds \X PairContents]

\* a call of computeLinePairs: it returns the map, or panics at an index
\* out of range
ComputeLinePairs ==
    /\ pairPc = "call"
    /\ IF PairIndicesInRange(pairLines, 0)
       THEN pairs' = computeLinePairs(pairLines) /\ pairPc' = "done"
       ELSE pairs' = EmptyMap /\ pairPc' = "panic"
    /\ UNCHANGED <<pairLines, parserVars, segVars, textVars, cmdVars,
                   uiVars>>

InitPairs ==
    /\ \E n \in 0..MaxPairLines :
          \E raw \in RawHunks(n) : pairLines = StampFrom(raw, 1, 1, 1)
    /\ pairs = EmptyMap
    /\ pairPc = "call"

PairsIdle ==
    /\ pairLines = <<>>
    /\ pairs = EmptyMap
    /\ pairPc = "idle"

(***************************************************************************)
(* Strings and runes.  A Go string is a sequence of bytes; []rune(s)       *)
(* decodes it as UTF-8, every byte that starts no valid encoding becoming  *)
(* U+FFFD, and string(runes) encodes the runes again.  The model has one   *)
(* one-byte character (a), one two-byte character (U+00E9 = C3 A9) and the *)
(* three bytes of U+FFFD.                                                  *)
(***************************************************************************)
RuneError == "U+FFFD"

RuneErrorBytes == <<"xEF", "xBF", "xBD">>

EAcute == "U+00E9"

EAcuteBytes == <<"xC3", "xA9">>

OneByteChars == {"a"}

RECURSIVE DecodeFrom(_, _)
DecodeFrom(bytes, p) ==
    IF p > Len(bytes) THEN <<>>
    ELSE IF bytes[p] \in OneByteChars
    THEN <<bytes[p]>> \o DecodeFrom(bytes, p + 1)
    ELSE IF LitAt(bytes, p, EAcuteBytes)
    THEN <<EAcute>> \o DecodeFrom(bytes, p + Len(EAcuteBytes))
    ELSE IF LitAt(bytes, p, RuneErrorBytes)
    THEN <<RuneError>> \o DecodeFrom(bytes, p + Len(RuneErrorBytes))
    ELSE <<RuneError>> \o DecodeFrom(bytes, p + 1)

\* []rune(s)
ToRunes(bytes) == DecodeFrom(bytes, 1)

RECURSIVE EncodeFrom(_, _)
EncodeFrom(runes, p) ==
    IF p > Len(runes) THEN <<>>
    ELSE IF runes[p] = EAcute THEN EAcuteBytes \o EncodeFrom(runes, p + 1)
    ELSE IF runes[p] = RuneError THEN RuneErrorBytes \o EncodeFrom(runes, p + 1)
    ELSE <<runes[p]>> \o EncodeFrom(runes, p + 1)

\* string(runes)
RunesToString(runes) == EncodeFrom(runes, 1)

(***************************************************************************)
(* splitInlineSegments (renderer.go 81-147).                               *)
(***************************************************************************)
Min(a, b) == IF a < b THEN a ELSE b

Max(a, b) == IF a < b THEN b ELSE a

\* lines 125-135
RECURSIVE PrefixLoop(_, _, _, _)
PrefixLoop(a, b, limit, count) ==
    IF count < limit /\ a[count + 1] = b[count + 1]
    THEN PrefixLoop(a, b, limit, count + 1)
    ELSE count

commonPrefixLength(a, b) == PrefixLoop(a, b, Min(Len(a), Len(b)), 0)

\* lines 137-147
RECURSIVE SuffixLoop(_, _, _, _)
SuffixLoop(a, b, limit, count) ==
    IF count < limit /\ a[Len(a) - count] = b[Len(b) - count]
    THEN SuffixLoop(a, b, limit, count + 1)
    ELSE count

commonSuffixLength(a, b) == SuffixLoop(a, b, Min(Len(a), Len(b)), 0)

\* lines 130-133: every index expression of the loop is in range
RECURSIVE PrefixInRange(_, _, _, _)
PrefixInRange(a, b, limit, count) ==
    IF ~(count < limit) THEN TRUE
    ELSE /\ InRange(a, count)
         /\ InRange(b, count)
         /\ a[count + 1] = b[count + 1] => PrefixInRange(a, b, limit, count + 1)

\* lines 142-145: every index expression of the loop is in range
RECURSIVE SuffixInRange(_, _, _, _)
SuffixInRange(a, b, limit, count) ==
    IF ~(count < limit) THEN TRUE
    ELSE /\ InRange(a, Len(a) - 1 - count)
         /\ InRange(b, Len(b) - 1 - count)
         /\ a[Len(a) - count] = b[Len(b) - count]
                => SuffixInRange(a, b, limit, count + 1)

\* lines 91-92 as a plausible slip: the suffix is sought in the whole strings
RemainingWhole(runes, prefix) == runes

\* lines 91-92: runes[prefix:]
Remaining(runes, prefix) == From(runes, prefix + 1)

Segment(runes, changed) == [text |-> RunesToString(runes), changed |-> changed]

\* lines 86-122
SegmentsOf(text, counterpart) ==
    LET textRunes        == ToRunes(text)
        counterRunes     == ToRunes(counterpart)
        prefix           == commonPrefixLength(textRunes, counterRunes)
        remainingText    == Remaining(textRunes, prefix)
        remainingCounter == Remaining(counterRunes, prefix)
        suffix           == Min(commonSuffixLength(remainingText, remainingCounter),
                                Len(remainingText))
        changedEnd       == Max(Len(textRunes) - suffix, prefix)
    IN  (IF prefix > 0
         THEN <<Segment(SubSeq(textRunes, 1, prefix), FALSE)>> ELSE <<>>)
        \o
        (IF changedEnd > prefix
         THEN <<Segment(SubSeq(textRunes, prefix + 1, changedEnd), TRUE)>> ELSE <<>>)
        \o
        (IF suffix > 0 /\ changedEnd < Len(textRunes)
         THEN <<Segment(From(textRunes, changedEnd + 1), FALSE)>> ELSE <<>>)

\* lines 86-115: every index and slice expression is in range
SegmentsInRange(text, counterpart) ==
    LET textRunes    == ToRunes(text)
        counterRunes == ToRunes(counterpart)
        limit        == Min(Len(textRunes), Len(counterRunes))
    IN  /\ PrefixInRange(textRunes, counterRunes, limit, 0)
        /\ LET prefix == commonPrefixLength(textRunes, counterRunes)
           IN  /\ SliceInRange(textRunes, prefix, Len(textRunes))
               /\ SliceInRange(counterRunes, prefix, Len(counterRunes))
               /\ LET remainingText    == Remaining(textRunes, prefix)
                      remainingCounter == Remaining(counterRunes, prefix)
                      restLimit == Min(Len(remainingText), Len(remainingCounter))
                  IN  /\ SuffixInRange(remainingText, remainingCounter, restLimit, 0)
                      /\ LET suffix ==
                                 Min(commonSuffixLength(remainingText, remainingCounter),
                                     Len(remainingText))
                             changedEnd == Max(Len(textRunes) - suffix, prefix)
                         IN  /\ prefix > 0 => SliceInRange(textRunes, 0, prefix)
                             /\ changedEnd > prefix =>
                                    SliceInRange(textRunes, prefix, changedEnd)
                             /\ (suffix > 0 /\ changedEnd < Len(textRunes)) =>
                                    SliceInRange(textRunes, changedEnd, Len(textRunes))

\* lines 81-123: the call does not panic
splitInlineInRange(text, counterpart) ==
    IF counterpart = <<>> THEN TRUE ELSE SegmentsInRange(text, counterpart)

\* lines 82-84 left out: a plausible slip
splitInlineSegmentsUnguarded(text, counterpart) == SegmentsOf(text, counterpart)

\* lines 81-123
splitInlineSegments(text, counterpart) ==
    IF counterpart = <<>> THEN <<>> ELSE SegmentsOf(text, counterpart)

(***************************************************************************)
(* Renderer.buildLineContent (renderer.go 354-391).  The string built is   *)
(* modelled as the sequence of its pieces, each the text written and the   *)
(* style it was rendered with: "plain" for text written as it is,          *)
(* "syntax" for the output of highlightCode, "inlineAdded" and             *)
(* "inlineDeleted" for the two inline highlight styles of the theme.       *)
(***************************************************************************)
Piece(text, style) == [text |-> text, style |-> style]

\* lines 374-388: what one segment adds to the builder
PieceOf(segment, lineType, lexer) ==
    IF segment.text = <<>> THEN <<>>
    ELSE IF segment.changed
    THEN <<Piece(segment.text,
                 IF lineType = LineAdded THEN "inlineAdded" ELSE "inlineDeleted")>>
    ELSE <<Piece(segment.text, IF lexer THEN "syntax" ELSE "plain")>>

RECURSIVE PiecesFrom(_, _, _, _)
PiecesFrom(segs, k, lineType, lexer) ==
    IF k > Len(segs) THEN <<>>
    ELSE PieceOf(segs[k], lineType, lexer) \o PiecesFrom(segs, k + 1, lineType, lexer)

\* lines 354-391; lexer is TRUE for a lexer, FALSE for nil
buildLineContent(content, lineType, useColor, lexer, counterpart) ==
    IF ~useColor THEN <<Piece(content, "plain")>>
    ELSE LET segs == splitInlineSegments(content, counterpart)
         IN  IF Len(segs) = 0
             THEN <<Piece(content, IF lexer THEN "syntax" ELSE "plain")>>
             ELSE PiecesFrom(segs, 1, lineType, lexer)

TextBytes == {"a", "xC3", "xA9"}

\* the strings of n bytes
Texts(n) == [1..n -> TextBytes]

\* a call of splitInlineSegments on its own
SplitInlineSegments ==
    /\ segPc = "call"
    /\ IF splitInlineInRange(segText, segCounterpart)
       THEN /\ segments' = splitInlineSegments(segText, segCounterpart)
            /\ segPc' = "split"
       ELSE segments' = <<>> /\ segPc' = "panic"
    /\ UNCHANGED <<segText, segCounterpart, rendered, parserVars, pairVars,
                   textVars, cmdVars, uiVars>>

\* a call of buildLineContent for a line of each type, with and without
\* colour, with and without a lexer
BuildLineContent ==
    \E lineType \in PairKinds, useColor \in BOOLEAN, lexer \in BOOLEAN :
        /\ segPc = "call"
        /\ IF useColor => splitInlineInRange(segText, segCounterpart)
           THEN /\ segments' = IF useColor
                               THEN splitInlineSegments(segText, segCounterpart)
                               ELSE <<>>
                /\ rendered' =
                      [useColor |-> useColor, lexer |-> lexer, lineType |-> lineType,
                       pieces |-> buildLineContent(segText, lineType, useColor,
                                                   lexer, segCounterpart)]
                /\ segPc' = "built"
           ELSE segments' = <<>> /\ rendered' = rendered /\ segPc' = "panic"
        /\ UNCHANGED <<segText, segCounterpart, parserVars, pairVars,
                       textVars, cmdVars, uiVars>>

NotRendered ==
    [useColor |-> FALSE, lexer |-> FALSE, lineType |-> LineUnchanged, pieces |-> <<>>]

InitSegments ==
    /\ \E n \in 0..MaxTextLen : segText \in Texts(n)
    /\ \E n \in 0..MaxTextLen : segCounterpart \in Texts(n)
    /\ segments = <<>>
    /\ rendered = NotRendered
    /\ segPc = "call"

SegmentsIdle ==
    /\ segText = <<>>
    /\ segCounterpart = <<>>
    /\ segments = <<>>
    /\ rendered = NotRendered
    /\ segPc = "idle"

ParserIdle ==
    /\ i = 0
    /\ files = <<>>
    /\ currentFile = <<>>
    /\ currentHunk = <<>>
    /\ oldLineNum = 0
    /\ newLineNum = 0
    /\ pc = "idle"
    /\ err = FALSE
    /\ nonEmpty = FALSE
    /\ hist = <<>>

(***************************************************************************)
(* getUntrackedFilesDiff (internal/git/diff.go 142-201): the text built    *)
(* for the untracked files, here for the files that pass the filter and    *)
(* can be read.  Texts are sequences of characters, "\n" among them.       *)
(***************************************************************************)
NewLine == "\n"

\* the positions of the "\n" in s
NewLinesOf(s) == {p \in 1..Len(s) : s[p] = NewLine}

\* strings.Split(s, "\n"): the texts before, between and after the "\n"
Split(s) ==
    LET nl == NewLinesOf(s)
        n  == Cardinality(nl)
        pos(k) == IF k = 0 THEN 0
                  ELSE IF k = n + 1 THEN Len(s) + 1
                  ELSE CHOOSE p \in nl : Cardinality({q \in nl : q < p}) = k - 1
    IN  [k \in 1..(n + 1) |-> SubSeq(s, pos(k - 1) + 1, pos(k) - 1)]

\* fmt.Sprintf("%d", n) for n >= 0
RECURSIVE Itoa(_)
Itoa(n) ==
    IF n < 10 THEN <<DigitChars[n + 1]>>
    ELSE Itoa(n \div 10) \o <<DigitChars[(n % 10) + 1]>>

\* line 184
NewFileModeText == NewFileModeLit \o <<" ", "1", "0", "0", "6", "4", "4", NewLine>>

\* line 185
IndexText ==
    IndexLit \o <<"0", "0", "0", "0", "0", "0", "0", ".", ".",
                  "0", "0", "0", "0", "0", "0", "0", NewLine>>

\* line 186
DevNullText ==
    <<"-", "-", "-", " ", "/", "d", "e", "v", "/", "n", "u", "l", "l", NewLine>>

\* line 187
PlusPathLit == <<"+", "+", "+", " ", "b", "/">>

\* line 188
UntrackedHunkLit == <<"@", "@", " ", "-", "0", ",", "0", " ", "+", "1", ",">>

\* lines 193-197
RECURSIVE PlusLines(_, _)
PlusLines(lines, k) ==
    IF k > Len(lines) THEN <<>>
    ELSE <<"+">> \o lines[k] \o <<NewLine>> \o PlusLines(lines, k + 1)

\* lines 183-197: the block written for one file
UntrackedBlock(file) ==
    LET lines == Split(file.content)
    IN  DiffGitLit \o file.path \o BSlashLit \o file.path \o <<NewLine>>
        \o NewFileModeText \o IndexText \o DevNullText
        \o PlusPathLit \o file.path \o <<NewLine>>
        \o UntrackedHunkLit \o Itoa(Len(lines)) \o HunkCloseLit \o <<NewLine>>
        \o PlusLines(lines, 1)

\* lines 161-200
RECURSIVE BlocksFrom(_, _)
BlocksFrom(fs, k) ==
    IF k > Len(fs) THEN <<>>
    ELSE UntrackedBlock(fs[k]) \o BlocksFrom(fs, k + 1)

getUntrackedFilesDiff(fs) == BlocksFrom(fs, 1)

\* number of untracked files
MaxUntracked == 2

\* number of bytes of an untracked file
MaxContentLen == 4

ContentChars == {"-", " ", NewLine}

\* what `git ls-files --others` lists, in its order
UntrackedPaths == << <<"x">>, <<"z", ".", "c">>, <<"w">> >>

\* the contents of at most m bytes
ContentsUpTo(m) == UNION {[1..n -> ContentChars] : n \in 0..m}

\* the lists of k untracked files
RECURSIVE UntrackedLists(_)
UntrackedLists(k) ==
    IF k = 0 THEN {<<>>}
    ELSE {Append(l, [path |-> UntrackedPaths[k], content |-> c]) :
             l \in UntrackedLists(k - 1), c \in ContentsUpTo(MaxContentLen)}

\* getDiffInternal (diff.go 80-90) with an empty regular diff, and the
\* text handed to ParseDiff, cut into lines as line 61 of parser.go does
GetUntrackedFilesDiff ==
    /\ pc = "untracked"
    /\ diffText' = Split(getUntrackedFilesDiff(untracked))
    /\ pc' = "loop"
    /\ UNCHANGED <<i, files, currentFile, currentHunk, oldLineNum, newLineNum,
                   err, nonEmpty, hist, untracked, pairVars, segVars, cmdVars,
                   uiVars>>

InitUntracked ==
    /\ \E k \in 1..MaxUntracked : untracked \in UntrackedLists(k)
    /\ diffText = <<>>

TextIdle ==
    /\ untracked = <<>>
    /\ diffText = <<>>

(***************************************************************************)
(* Texts of one file with two hunks of the same body, under every two      *)
(* hunk header lines that differ in how the counts are written.            *)
(***************************************************************************)
\* HunkPlainLine with the old count written out only
HunkMixedLine ==
    <<"@", "@", " ", "-", "2", ",", "1", " ", "+", "3", " ", "@", "@">>

\* HunkPlainLine with counts of 0
HunkNoneLine ==
    <<"@", "@", " ", "-", "2", ",", "0", " ", "+", "3", ",", "0", " ", "@", "@">>

HunkForms == { HunkPlainLine, HunkOnesLine, HunkMixedLine, HunkNoneLine }

BodyLines ==
    { <<"+", "a">>, <<"-", "b">>, <<" ", "c">>, <<"\\">>, <<"x">>,
      <<"-", "-", "-", " ", "a">> }

\* number of lines of the body of each of the two hunks
MaxBodyLines == 3

Bodies(n) == [1..n -> BodyLines]

TwoHunkText(h1, h2, body) ==
    <<HeaderXY, h1>> \o body \o <<h2>> \o body \o << <<>> >>

InitTwoHunks ==
    /\ untracked = <<>>
    /\ \E h1 \in HunkForms, h2 \in HunkForms :
          \E n \in 0..MaxBodyLines : \E body \in Bodies(n) :
              diffText = TwoHunkText(h1, h2, body)

(***************************************************************************)
(* The configuration file (package config, unnamed/part_005) and the root  *)
(* command (package cmd, unnamed/part_006).  Strings are sequences of      *)
(* characters; a *bool is <<>> for nil and <<b>> for a pointer to b.       *)
(***************************************************************************)
DiffModeAll == <<"a", "l", "l">>

DiffModeStaged == <<"s", "t", "a", "g", "e", "d">>

DiffModeUnstaged == <<"u", "n", "s", "t", "a", "g", "e", "d">>

DiffStyleDefault == <<"d", "e", "f", "a", "u", "l", "t">>

DiffStylePatch == <<"p", "a", "t", "c", "h">>

DiffStyleFilled == <<"f", "i", "l", "l", "e", "d">>

\* git.DiffModeAll, git.DiffModeStaged, git.DiffModeUnstaged (diff.go 14-18)
GitDiffModeAll == "git.DiffModeAll"

GitDiffModeStaged == "git.DiffModeStaged"

GitDiffModeUnstaged == "git.DiffModeUnstaged"

UpperChars == <<"A", "B", "C", "D", "E", "F", "S">>

LowerChars == <<"a", "b", "c", "d", "e", "f", "s">>

HexDigits ==
    Digits \cup {LowerChars[k] : k \in 1..6} \cup {UpperChars[k] : k \in 1..6}

LowerOf(c) ==
    IF \E k \in 1..Len(UpperChars) : UpperChars[k] = c
    THEN LowerChars[CHOOSE k \in 1..Len(UpperChars) : UpperChars[k] = c]
    ELSE c

\* strings.ToLower
ToLower(t) == [k \in 1..Len(t) |-> LowerOf(t[k])]

\* strings.TrimSpace
RECURSIVE TrimLeft(_)
TrimLeft(t) == IF t # <<>> /\ t[1] = " " THEN TrimLeft(Tail(t)) ELSE t

RECURSIVE TrimRight(_)
TrimRight(t) ==
    IF t # <<>> /\ t[Len(t)] = " " THEN TrimRight(SubSeq(t, 1, Len(t) - 1)) ELSE t

TrimSpace(t) == TrimRight(TrimLeft(t))

\* strings.TrimPrefix
TrimPrefix(t, prefix) == IF HasPrefix(t, prefix) THEN From(t, Len(prefix) + 1) ELSE t

\* &Config{}
EmptyConfig ==
    [Interactive |-> <<>>, Unified |-> <<>>, NoColor |-> <<>>,
     DiffMode |-> <<>>, DiffStyle |-> <<>>,
     AddedTextColor |-> <<>>, DeletedTextColor |-> <<>>]

\* part_005 179-196; ok is FALSE for an error
normalizeHexColor(value) ==
    LET trimmed == TrimSpace(value)
        hex     == TrimPrefix(trimmed, <<"#">>)
    IN  IF trimmed = <<>> THEN [ok |-> TRUE, value |-> <<>>]
        ELSE IF Len(hex) # 6 THEN [ok |-> FALSE, value |-> <<>>]
        ELSE IF \E k \in 1..Len(hex) : hex[k] \notin HexDigits
        THEN [ok |-> FALSE, value |-> <<>>]
        ELSE [ok |-> TRUE, value |-> <<"#">> \o ToLower(hex)]

\* part_005 143-177; ok is FALSE for an error
normalize(c) ==
    LET mode    == ToLower(TrimSpace(c.DiffMode))
        style   == ToLower(TrimSpace(c.DiffStyle))
        added   == normalizeHexColor(c.AddedTextColor)
        deleted == normalizeHexColor(c.DeletedTextColor)
    IN  IF mode \notin {<<>>, DiffModeAll, DiffModeStaged, DiffModeUnstaged}
        THEN [ok |-> FALSE, cfg |-> c]
        ELSE IF style \notin {<<>>, DiffStyleDefault, DiffStylePatch, DiffStyleFilled}
        THEN [ok |-> FALSE, cfg |-> c]
        ELSE IF ~added.ok THEN [ok |-> FALSE, cfg |-> c]
        ELSE IF ~deleted.ok THEN [ok |-> FALSE, cfg |-> c]
        ELSE [ok |-> TRUE,
              cfg |-> [c EXCEPT !.DiffMode = mode, !.DiffStyle = style,
                                !.AddedTextColor = added.value,
                                !.DeletedTextColor = deleted.value]]

\* part_005 109-133: file is [kind |-> "missing"], [kind |-> "malformed"]
\* (not JSON, or not readable), or [kind |-> "config", cfg |-> c] with c
\* what json.Unmarshal decodes
Load(file) ==
    IF file.kind = "missing" THEN [ok |-> TRUE, cfg |-> EmptyConfig]
    ELSE IF file.kind = "malformed" THEN [ok |-> FALSE, cfg |-> EmptyConfig]
    ELSE IF normalize(file.cfg).ok
    THEN [ok |-> TRUE, cfg |-> normalize(file.cfg).cfg]
    ELSE [ok |-> FALSE, cfg |-> EmptyConfig]

\* the flags of part_006 320-324
FlagNames == {"staged", "cached", "no-color", "unified", "interactive"}

\* cmd.Flags().Changed(name)
Changed(name) == name \in DOMAIN given

\* part_006 451-459
applyBool(flagName, target, value) ==
    IF value = <<>> THEN target
    ELSE IF Changed(flagName) THEN target
    ELSE value[1]

\* part_006 461-469: the package variables after applyConfig
FlagsWithConfig(fl, c) ==
    [interactive |-> applyBool("interactive", fl.interactive, c.Interactive),
     unified     |-> applyBool("unified", fl.unified, c.Unified),
     noColor     |-> applyBool("no-color", fl.noColor, c.NoColor),
     staged      |-> IF /\ c.DiffMode = DiffModeStaged
                        /\ ~Changed("staged") /\ ~Changed("cached")
                     THEN TRUE ELSE fl.staged,
     cached      |-> fl.cached]

\* part_006 352-364
SelectDiffMode(showStaged, ac) ==
    IF showStaged THEN GitDiffModeStaged
    ELSE IF ac # <<>> THEN
        IF ac[1].DiffMode = DiffModeAll THEN GitDiffModeAll
        ELSE IF ac[1].DiffMode = DiffModeUnstaged THEN GitDiffModeUnstaged
        ELSE IF ac[1].DiffMode = DiffModeStaged THEN GitDiffModeStaged
        ELSE GitDiffModeAll
    ELSE GitDiffModeAll

\* part_006 344-396: what runDiff works with
Settings(fl, ac) ==
    [diffMode    |-> SelectDiffMode(fl.staged \/ fl.cached, ac),
     useColor    |-> ~fl.noColor,
     unified     |-> fl.unified,
     interactive |-> fl.interactive,
     diffStyle   |-> IF ac # <<>> THEN ac[1].DiffStyle ELSE <<>>,
     addedTextColor   |-> IF ac # <<>> THEN ac[1].AddedTextColor ELSE <<>>,
     deletedTextColor |-> IF ac # <<>> THEN ac[1].DeletedTextColor ELSE <<>>]

NoSettings == Settings([interactive |-> FALSE, unified |-> FALSE, noColor |-> FALSE,
                        staged |-> FALSE, cached |-> FALSE], <<>>)

\* part_006 439-472, run once before the command (part_006 326)
ApplyConfig ==
    /\ cmdPc = "flags"
    /\ appConfig = <<>>
    /\ IF Load(configFile).ok
       THEN /\ appConfig' = <<Load(configFile).cfg>>
            /\ flags' = FlagsWithConfig(flags, Load(configFile).cfg)
            /\ cmdPc' = "config"
       ELSE /\ UNCHANGED <<appConfig, flags>>
            /\ cmdPc' = "failed"
    /\ UNCHANGED <<configFile, given, settings, parserVars, pairVars,
                   segVars, textVars, uiVars>>

\* part_006 336-437, in a git repository
RunDiff ==
    /\ cmdPc = "config"
    /\ settings' = Settings(flags, appConfig)
    /\ cmdPc' = "run"
    /\ UNCHANGED <<configFile, given, flags, appConfig, parserVars, pairVars,
                   segVars, textVars, uiVars>>

\* number of flags given on the command line
MaxFlagsGiven == 2

\* the command lines: the flags given, each with its value
CommandLines(names) == [names -> BOOLEAN]

\* the package variables after the flags are parsed (defaults of part_006
\* 320-324 for the flags not given)
ParsedFlags(line) ==
    LET val(name) == IF name \in DOMAIN line THEN line[name] ELSE FALSE
    IN  [interactive |-> val("interactive"), unified |-> val("unified"),
         noColor |-> val("no-color"), staged |-> val("staged"),
         cached |-> val("cached")]

BoolPointers == { <<>>, <<TRUE>>, <<FALSE>> }

ModeTexts ==
    { <<>>, DiffModeAll, <<" ", "S", "t", "a", "g", "e", "d">>, DiffModeUnstaged }

StyleTexts == { <<>>, <<"F", "i", "l", "l", "e", "d", " ">> }

AddedColorTexts == { <<>>, <<" ", "#", "8", "D", "F", "0", "B", "5">>, <<"r", "e", "d">> }

DeletedColorTexts == { <<"f", "f", "8", "b", "a", "3">>, <<"#", "1", "2", "3", "4", "5", "g">> }

\* the files that decode into a Config
ConfigRecords ==
    [Interactive : BoolPointers, Unified : BoolPointers, NoColor : BoolPointers,
     DiffMode : ModeTexts, DiffStyle : StyleTexts,
     AddedTextColor : AddedColorTexts, DeletedTextColor : DeletedColorTexts]

InitCommand ==
    /\ \/ configFile \in {[kind |-> "missing"], [kind |-> "malformed"]}
       \/ \E c \in ConfigRecords : configFile = [kind |-> "config", cfg |-> c]
    /\ \E names \in SUBSET FlagNames :
          /\ Cardinality(names) <= MaxFlagsGiven
          /\ given \in CommandLines(names)
    /\ flags = ParsedFlags(given)
    /\ appConfig = <<>>
    /\ settings = NoSettings
    /\ cmdPc = "flags"

CmdIdle ==
    /\ configFile = [kind |-> "missing"]
    /\ given = << >>
    /\ flags = ParsedFlags(<< >>)
    /\ appConfig = <<>>
    /\ settings = NoSettings
    /\ cmdPc = "idle"

(***************************************************************************)
(* The interactive program (ui/interactive.go, the model of lines          *)
(* 622-3303).  A parser.FileDiff is its NewPath, the only field Update     *)
(* reads.  The model record has the fields of the struct that Update       *)
(* reads, and aiError; the fields only View reads (width, unified,         *)
(* previewCollapsed, aiResult, aiImprovements, aiExplanation, branches,    *)
(* the selected branches, copySuccess, commitError, commitPushed,          *)
(* pushError, commitCompleted, the title of the list, the focus of the     *)
(* two inputs) are left out, and so are the assignments to them.  Indices  *)
(* are Go's: file i of a slice is files[i + 1] here.                       *)
(***************************************************************************)
\* lines 647-651
filterAll == 0

filterStaged == 1

filterUnstaged == 2

\* lines 699-704: a fileItem; status is "branch" for the items of line 1531
FileItem(path, status, index) ==
    [type |-> "fileItem", fullPath |-> path, status |-> status, index |-> index]

\* lines 710-714
AIMenuItem(view) == [type |-> "aiMenuItem", viewMode |-> view]

\* lines 731-752
buildFileItems(fs) == [k \in 1..Len(fs) |-> FileItem(fs[k], "modified", k - 1)]

\* lines 754-783
buildAIMenuItems ==
    << AIMenuItem("aiAnalysisView"), AIMenuItem("aiCommitView"),
       AIMenuItem("aiPRView"), AIMenuItem("aiImproveView"),
       AIMenuItem("aiExplainView") >>

\* lines 785-791
newCollapsedMap(length) == [k \in 0..(length - 1) |-> FALSE]

\* lines 793-800
findFileIndexByPath(fs, path) ==
    IF \E k \in 1..Len(fs) : fs[k] = path
    THEN (CHOOSE k \in 1..Len(fs) :
              fs[k] = path /\ \A j \in 1..(k - 1) : fs[j] # path) - 1
    ELSE -1

(***************************************************************************)
(* The list widget (bubbles/list, filtering off): its items and its        *)
(* cursor.  SetItems keeps the cursor, SelectedItem is nil (<<>>) when the *)
(* cursor is past the items, and the keys j/down, k/up, g and G move the   *)
(* cursor within the items.                                                *)
(***************************************************************************)
\* m.list.SetItems(items), lines 921, 993, 1075, 1228, 1538, 1630, 1635
SetItems(l, items) == [l EXCEPT !.items = items]

\* m.list.Select(idx), line 939, and m.list.ResetSelected(), line 925
Select(l, idx) == [l EXCEPT !.cursor = idx]

\* m.list.SelectedItem(), lines 1000, 1028, 1154, 3166
SelectedItem(l) ==
    IF l.cursor < 0 \/ Len(l.items) <= l.cursor THEN <<>>
    ELSE <<l.items[l.cursor + 1]>>

\* m.list.Update(msg), lines 1019, 1056, 1200, 1407, 1419
listUpdate(l, key) ==
    LET last == Max(Len(l.items) - 1, 0)
    IN  IF key \in {"j", "down"} THEN [l EXCEPT !.cursor = Min(l.cursor + 1, last)]
        ELSE IF key \in {"k", "up"} THEN [l EXCEPT !.cursor = Max(l.cursor - 1, 0)]
        ELSE IF key = "g" THEN [l EXCEPT !.cursor = 0]
        ELSE IF key = "G" THEN [l EXCEPT !.cursor = last]
        ELSE l

\* the keys that are one character, which a text input appends
RuneKeys ==
    { "q", "/", " ", "f", "a", "o", "c", "p", "i", "e", "y", "n", "r",
      "j", "k", "d", "u", "g", "G", "h", "l", "x" }

\* m.textInput.Update(msg), line 1061
textInputUpdate(value, key) ==
    IF key \in RuneKeys THEN Append(value, key)
    ELSE IF key = "backspace" /\ value # <<>> THEN SubSeq(value, 1, Len(value) - 1)
    ELSE value

\* strings.Contains
Contains(s, sub) == \E p \in 1..(Len(s) + 1) : LitAt(s, p, sub)

\* lines 1634-1636
resetList(md) == [md EXCEPT !.list = SetItems(@, md.fileItems)]

\* lines 1615-1631
filterList(md) ==
    LET query == ToLower(md.textInput)
        IsMatch(item) == Contains(ToLower(item.fullPath), query)
    IN  IF query = <<>> THEN resetList(md)
        ELSE [md EXCEPT !.list = SetItems(@, SelectSeq(md.fileItems, IsMatch))]

\* lines 905-913
TargetOf(md, filter) ==
    IF filter = filterStaged THEN md.stagedFiles
    ELSE IF filter = filterUnstaged THEN md.unstagedFiles
    ELSE md.allFiles

\* lines 930-936 with the search by path left out, a plausible slip
TargetIndexFirst(target, prevPath) == 0

\* lines 930-936
TargetIndex(target, prevPath) ==
    LET idx == IF prevPath # <<>> THEN findFileIndexByPath(target, prevPath) ELSE -1
    IN  IF idx < 0 THEN 0 ELSE idx

\* lines 899-941
applyFilter(md, filter) ==
    LET prevPath ==
            IF Len(md.files) > 0 /\ md.selectedIdx >= 0 /\ md.selectedIdx < Len(md.files)
            THEN md.files[md.selectedIdx + 1] ELSE <<>>
        target == TargetOf(md, filter)
        set == [md EXCEPT !.filterMode = filter,
                          !.files = target,
                          !.fileItems = buildFileItems(target),
                          !.collapsed = newCollapsedMap(Len(target)),
                          !.scrollOffset = 0,
                          !.list = SetItems(@, buildFileItems(target))]
    IN  IF Len(target) = 0
        THEN [set EXCEPT !.selectedIdx = -1, !.list = Select(@, 0)]
        ELSE [set EXCEPT !.selectedIdx = TargetIndex(target, prevPath),
                         !.list = Select(@, TargetIndex(target, prevPath))]

\* lines 950-953
cycleFilter(md) == applyFilter(md, (md.filterMode + 1) % 3)

\* lines 870-887: the model RunInteractive starts the program with; the
\* service is TRUE for a service, FALSE for nil
NewModel(all, staged, unstaged, service) ==
    applyFilter(
        [allFiles |-> all, stagedFiles |-> staged, unstagedFiles |-> unstaged,
         files |-> <<>>, fileItems |-> <<>>,
         list |-> [items |-> <<>>, cursor |-> 0],
         textInput |-> <<>>, textarea |-> <<>>,
         viewMode |-> "fileListView", previousViewMode |-> "fileListView",
         selectedIdx |-> -1, collapsed |-> <<>>, filterMode |-> filterAll,
         height |-> 0, scrollOffset |-> 0,
         aiService |-> service, aiLoading |-> FALSE, aiError |-> "",
         aiCommitMsg |-> <<>>, aiPRDesc |-> "",
         commitScope |-> "", commitApplied |-> FALSE],
        filterAll)

(***************************************************************************)
(* model.Update (lines 959-1581).  Every operator below is one case of the *)
(* switch and gives the model and the command Update returns: "nil",       *)
(* "tea.Quit" or the name of the method that builds the command.           *)
(***************************************************************************)
Return(md, command) == [m |-> md, cmd |-> command]

\* lines 999-1009 and 1027-1037: the fileItem selected in the list opens
\* in the diff view
CanOpenSelected(md) ==
    /\ Len(md.list.items) > 0
    /\ SelectedItem(md.list) # <<>>
    /\ SelectedItem(md.list)[1].type = "fileItem"

OpenSelected(md) ==
    [md EXCEPT !.selectedIdx = SelectedItem(md.list)[1].index,
               !.scrollOffset = 0,
               !.viewMode = "diffView"]

\* lines 990-995 and 1225-1230
OpenAIMenu(md, from) ==
    [md EXCEPT !.previousViewMode = from,
               !.viewMode = "aiMenuView",
               !.list = SetItems(@, buildAIMenuItems)]

\* line 1272
BottomOffset == 999999

\* lines 1242-1273 and 1400-1443: the keys that scroll
ScrollKeys == {"j", "down", "k", "up", "d", "ctrl+d", "u", "ctrl+u", "g", "G"}

\* lines 1257-1262 without the test of line 1260, a plausible slip
PageUpUnclamped(offset, height) == offset - height \div 2

\* lines 1257-1262 and 1427-1432
PageUp(offset, height) == Max(offset - height \div 2, 0)

Scroll(md, key) ==
    IF key \in {"j", "down"} THEN [md EXCEPT !.scrollOffset = @ + 1]
    ELSE IF key \in {"k", "up"}
    THEN [md EXCEPT !.scrollOffset = IF @ > 0 THEN @ - 1 ELSE @]
    ELSE IF key \in {"d", "ctrl+d"}
    THEN [md EXCEPT !.scrollOffset = @ + md.height \div 2]
    ELSE IF key \in {"u", "ctrl+u"}
    THEN [md EXCEPT !.scrollOffset = PageUp(@, md.height)]
    ELSE IF key = "g" THEN [md EXCEPT !.scrollOffset = 0]
    ELSE [md EXCEPT !.scrollOffset = BottomOffset]

\* lines 969-1021
fileListKey(md, key) ==
    IF key \in {"q", "ctrl+c"} THEN Return(md, "tea.Quit")
    ELSE IF key = "/"
    THEN Return([md EXCEPT !.viewMode = "searchMode", !.textInput = <<>>], "nil")
    ELSE IF key = " " THEN Return(md, "nil")
    ELSE IF key = "f" THEN Return(cycleFilter(md), "nil")
    ELSE IF key = "a" THEN Return(OpenAIMenu(md, "fileListView"), "nil")
    ELSE IF key \in {"o", "enter"}
    THEN Return(IF CanOpenSelected(md) THEN OpenSelected(md) ELSE md, "nil")
    ELSE IF key = "tab" THEN Return(md, "nil")
    ELSE Return([md EXCEPT !.list = listUpdate(@, key)], "nil")

\* lines 1023-1064
searchKey(md, key) ==
    IF key = "enter"
    THEN Return(IF CanOpenSelected(md) THEN OpenSelected(md)
                ELSE [filterList(md) EXCEPT !.viewMode = "fileListView"], "nil")
    ELSE IF key = "esc"
    THEN Return(resetList([md EXCEPT !.viewMode = "fileListView",
                                     !.textInput = <<>>]), "nil")
    ELSE IF key \in {"up", "down"}
    THEN Return([md EXCEPT !.list = listUpdate(@, key)], "nil")
    ELSE Return(filterList([md EXCEPT !.textInput = textInputUpdate(@, key)]), "nil")

\* lines 1083-1103 and 1166-1183: the commit function of the AI menu
StartCommit(md) ==
    IF Len(md.stagedFiles) > 0
    THEN Return([md EXCEPT !.commitScope = "staged", !.viewMode = "aiCommitView",
                           !.aiLoading = TRUE, !.aiError = "", !.scrollOffset = 0],
                "generateCommitMessage")
    ELSE IF Len(md.allFiles) > 0
    THEN Return([md EXCEPT !.viewMode = "aiCommitScopeView", !.aiLoading = FALSE,
                           !.aiError = "", !.scrollOffset = 0], "nil")
    ELSE Return([md EXCEPT !.aiError = "No changes to commit",
                           !.viewMode = "aiCommitView", !.aiLoading = FALSE,
                           !.scrollOffset = 0], "nil")

\* lines 1109-1114, 1131-1136, 1142-1147 and 1157-1164, 1187-1190
StartAI(md, view, command) ==
    Return([md EXCEPT !.viewMode = view, !.aiLoading = TRUE, !.aiError = "",
                      !.scrollOffset = 0], command)

\* lines 1120-1125
StartBranchSelect(md) ==
    Return([md EXCEPT !.viewMode = "aiBranchSelectView", !.aiLoading = FALSE,
                      !.aiError = "", !.scrollOffset = 0], "loadBranches")

\* the test `m.aiService != nil` taken as true, a plausible slip
HasServiceAlways(md) == TRUE

\* lines 1081, 1109, 1120, 1131, 1142, 1157, 1381: m.aiService != nil
HasService(md) == md.aiService

\* lines 1151-1196
SelectAIFunction(md) ==
    IF /\ Len(md.list.items) > 0
       /\ SelectedItem(md.list) # <<>>
       /\ SelectedItem(md.list)[1].type = "aiMenuItem"
       /\ HasService(md)
    THEN LET view == SelectedItem(md.list)[1].viewMode
         IN  IF view = "aiAnalysisView" THEN StartAI(md, view, "performAIAnalysis")
             ELSE IF view = "aiCommitView" THEN StartCommit(md)
             ELSE IF view = "aiPRView"
             THEN Return([md EXCEPT !.viewMode = "aiBranchSelectView",
                                    !.aiLoading = TRUE, !.aiError = "",
                                    !.scrollOffset = 0], "loadBranches")
             ELSE IF view = "aiImproveView" THEN StartAI(md, view, "suggestImprovements")
             ELSE StartAI(md, view, "explainChanges")
    ELSE Return(md, "nil")

\* lines 1066-1202
aiMenuKey(md, key) ==
    IF key \in {"q", "ctrl+c"} THEN Return(md, "tea.Quit")
    ELSE IF key \in {"esc", "backspace"}
    THEN Return([md EXCEPT !.viewMode = md.previousViewMode,
                           !.list = SetItems(@, md.fileItems)], "nil")
    ELSE IF key = "c"
    THEN (IF HasService(md) THEN StartCommit(md) ELSE Return(md, "nil"))
    ELSE IF key = "a"
    THEN (IF HasService(md) THEN StartAI(md, "aiAnalysisView", "performAIAnalysis")
          ELSE Return(md, "nil"))
    ELSE IF key = "p"
    THEN (IF HasService(md) THEN StartBranchSelect(md) ELSE Return(md, "nil"))
    ELSE IF key = "i"
    THEN (IF HasService(md) THEN StartAI(md, "aiImproveView", "suggestImprovements")
          ELSE Return(md, "nil"))
    ELSE IF key = "e"
    THEN (IF HasService(md) THEN StartAI(md, "aiExplainView", "explainChanges")
          ELSE Return(md, "nil"))
    ELSE IF key = "enter" THEN SelectAIFunction(md)
    ELSE Return([md EXCEPT !.list = listUpdate(@, key)], "nil")

\* lines 1204-1289
diffKey(md, key) ==
    IF key \in {"q", "ctrl+c"} THEN Return(md, "tea.Quit")
    ELSE IF key \in {"esc", "backspace"}
    THEN Return([md EXCEPT !.viewMode = "fileListView"], "nil")
    ELSE IF key = "/"
    THEN Return([md EXCEPT !.viewMode = "searchMode", !.textInput = <<>>], "nil")
    ELSE IF key = "f"
    THEN Return([cycleFilter(md) EXCEPT !.viewMode = "fileListView"], "nil")
    ELSE IF key = "a" THEN Return(OpenAIMenu(md, "diffView"), "nil")
    ELSE IF key = "tab" THEN Return(md, "nil")
    ELSE IF key = " "
    THEN Return([md EXCEPT !.collapsed =
                    MapPut(@, md.selectedIdx,
                           IF md.selectedIdx \in DOMAIN @ THEN ~@[md.selectedIdx]
                           ELSE TRUE)], "nil")
    ELSE IF key \in ScrollKeys THEN Return(Scroll(md, key), "nil")
    ELSE IF key \in {"h", "left"}
    THEN Return(IF md.selectedIdx > 0
                THEN [md EXCEPT !.selectedIdx = @ - 1, !.scrollOffset = 0]
                ELSE md, "nil")
    ELSE IF key \in {"l", "right"}
    THEN Return(IF md.selectedIdx < Len(md.files) - 1
                THEN [md EXCEPT !.selectedIdx = @ + 1, !.scrollOffset = 0]
                ELSE md, "nil")
    ELSE Return(md, "nil")

\* line 1331 without the test of m.commitApplied, a plausible slip
CanPushUnapplied(md) == md.viewMode = "aiCommitView"

\* lines 1331 and 1347
CanPush(md) == md.viewMode = "aiCommitView" /\ md.commitApplied

\* lines 1355 and 1362
HasCommitMsg(md) == md.viewMode = "aiCommitView" /\ md.aiCommitMsg # <<>>

\* lines 1379-1397
Retry(md) ==
    IF HasService(md)
    THEN LET set == [md EXCEPT !.aiLoading = TRUE, !.aiError = ""]
         IN  IF md.viewMode = "aiAnalysisView" THEN Return(set, "performAIAnalysis")
             ELSE IF md.viewMode = "aiCommitView"
             THEN Return(set, "generateCommitMessage")
             ELSE IF md.viewMode = "aiPRView" THEN Return(set, "generatePRDescription")
             ELSE IF md.viewMode = "aiImproveView"
             THEN Return(set, "suggestImprovements")
             ELSE IF md.viewMode = "aiExplainView" THEN Return(set, "explainChanges")
             ELSE Return(set, "nil")
    ELSE Return(md, "nil")

\* lines 1291-1444, the case of the eight AI views.  aiCommitEditView is
\* one of them, so the default case of lines 1446-1452, which alone gives
\* the key to the textarea, is never taken in that view.
aiViewKey(md, key) ==
    IF key \in {"q", "ctrl+c"} THEN Return(md, "tea.Quit")
    ELSE IF key = "enter"
    THEN Return(md, IF md.viewMode = "aiBranchSelectView" THEN "selectBranch"
                    ELSE "nil")
    ELSE IF key \in {"esc", "backspace"}
    THEN (IF md.viewMode = "aiCommitScopeView"
          THEN Return([md EXCEPT !.viewMode = "aiMenuView"], "nil")
          ELSE IF md.viewMode = "aiCommitEditView"
          THEN Return([md EXCEPT !.viewMode = "aiCommitView"], "nil")
          ELSE IF md.viewMode = "aiBranchSelectView"
          THEN Return([md EXCEPT !.viewMode = "aiMenuView"], "nil")
          ELSE Return([md EXCEPT !.viewMode = "fileListView",
                                 !.aiLoading = FALSE, !.aiError = ""], "nil"))
    ELSE IF key = "y"
    THEN (IF md.viewMode = "aiCommitScopeView"
          THEN Return([md EXCEPT !.commitScope = "all", !.viewMode = "aiCommitView",
                                 !.aiLoading = TRUE, !.aiError = "",
                                 !.scrollOffset = 0], "generateCommitMessage")
          ELSE IF CanPush(md) THEN Return(md, "pushBranch")
          ELSE IF md.viewMode = "aiPRView" /\ md.aiPRDesc # ""
          THEN Return(md, "copyToClipboard")
          ELSE Return(md, "nil"))
    ELSE IF key = "n"
    THEN (IF md.viewMode = "aiCommitScopeView"
          THEN Return([md EXCEPT !.viewMode = "aiMenuView"], "nil")
          ELSE Return(md, "nil"))
    ELSE IF key = "a"
    THEN Return(md, IF HasCommitMsg(md) THEN "applyCommit" ELSE "nil")
    ELSE IF key = "e"
    THEN Return(IF HasCommitMsg(md)
                THEN [md EXCEPT !.textarea = md.aiCommitMsg,
                                !.viewMode = "aiCommitEditView"]
                ELSE md, "nil")
    ELSE IF key = "ctrl+s"
    THEN Return(IF md.viewMode = "aiCommitEditView"
                THEN [md EXCEPT !.aiCommitMsg = md.textarea,
                                !.viewMode = "aiCommitView"]
                ELSE md, "nil")
    ELSE IF key = "r" THEN Retry(md)
    ELSE IF key \in {"j", "down", "k", "up"} /\ md.viewMode = "aiBranchSelectView"
    THEN Return([md EXCEPT !.list = listUpdate(@, key)], "nil")
    ELSE IF key \in ScrollKeys THEN Return(Scroll(md, key), "nil")
    ELSE Return(md, "nil")

\* lines 1291 and 1603-1608: the views of the AI functions
AIViews ==
    { "aiAnalysisView", "aiCommitView", "aiCommitScopeView", "aiCommitEditView",
      "aiPRView", "aiBranchSelectView", "aiImproveView", "aiExplainView" }

\* lines 1526-1538
BranchItems(branches) ==
    [k \in 1..Len(branches) |-> FileItem(branches[k], "branch", k - 1)]

\* lines 1546-1569; current is what git.GetCurrentBranch gives: "error"
\* for an error, else the name of the branch
branchSelected(md, msg, current) ==
    IF current = "error"
    THEN Return([md EXCEPT !.aiError = "Failed to get current branch"], "nil")
    ELSE IF current = ""
    THEN Return([md EXCEPT !.aiError = "Current branch name is empty"], "nil")
    ELSE Return([md EXCEPT !.viewMode = "aiPRView", !.aiLoading = TRUE,
                           !.aiError = ""], "generateBranchPRDescription")

\* the messages that carry the result and the error of an AI request
AIResultMsgs ==
    { "aiAnalysisResultMsg", "aiCommitResultMsg", "aiPRResultMsg",
      "aiImproveResultMsg", "aiExplainResultMsg" }

AIErrorMsgs ==
    { "aiAnalysisErrorMsg", "aiCommitErrorMsg", "aiPRErrorMsg",
      "aiImproveErrorMsg", "aiExplainErrorMsg" }

\* lines 1455-1578: the messages of the commands
updateMsg(md, msg, current) ==
    IF msg.type = "aiCommitResultMsg"
    THEN Return([md EXCEPT !.aiLoading = FALSE, !.aiCommitMsg = msg.commitMsg], "nil")
    ELSE IF msg.type = "aiPRResultMsg"
    THEN Return([md EXCEPT !.aiLoading = FALSE, !.aiPRDesc = msg.prDesc], "nil")
    ELSE IF msg.type \in AIResultMsgs
    THEN Return([md EXCEPT !.aiLoading = FALSE], "nil")
    ELSE IF msg.type \in AIErrorMsgs
    THEN Return([md EXCEPT !.aiLoading = FALSE, !.aiError = msg.err], "nil")
    ELSE IF msg.type = "commitAppliedMsg"
    THEN Return([md EXCEPT !.commitApplied = TRUE], "nil")
    ELSE IF msg.type = "commitErrorMsg"
    THEN Return([md EXCEPT !.commitApplied = FALSE], "nil")
    ELSE IF msg.type = "branchLoadResultMsg"
    THEN Return([md EXCEPT !.list = SetItems(@, BranchItems(msg.branches))], "nil")
    ELSE IF msg.type \in {"branchLoadErrorMsg", "branchSelectErrorMsg"}
    THEN Return([md EXCEPT !.aiError = msg.err], "nil")
    ELSE IF msg.type = "branchSelectedMsg" THEN branchSelected(md, msg, current)
    ELSE Return(md, "nil")

\* lines 967-1453: a key, by the view it is pressed in
updateKey(md, key) ==
    IF md.viewMode = "fileListView" THEN fileListKey(md, key)
    ELSE IF md.viewMode = "searchMode" THEN searchKey(md, key)
    ELSE IF md.viewMode = "aiMenuView" THEN aiMenuKey(md, key)
    ELSE IF md.viewMode = "diffView" THEN diffKey(md, key)
    ELSE aiViewKey(md, key)

\* lines 2077-2080
ViewportHeight(height) == IF height - 6 < 1 THEN 10 ELSE height - 6

\* lines 2073-2114 of renderDiff, for a file that is not collapsed whose
\* rendered hunks split into totalLines lines: the window
\* allLines[scrollOffset:endLine] that is shown, and whether the scroll
\* indicator, which divides by maxScroll, is shown
renderDiff(md, totalLines) ==
    LET viewportHeight == ViewportHeight(md.height)
        maxScroll == Max(totalLines - viewportHeight, 0)
        scrollOffset == Max(Min(md.scrollOffset, maxScroll), 0)
        endLine == Min(scrollOffset + viewportHeight, totalLines)
    IN  [scrollOffset |-> scrollOffset, endLine |-> endLine,
         maxScroll |-> maxScroll, indicator |-> totalLines > viewportHeight]

(***************************************************************************)
(* The commands (lines 2227-2329 and 3140-3229).  A command is a closure   *)
(* over the model Update returned; it runs outside Update and its message  *)
(* is given to a later call of Update.  What the closure reads of the      *)
(* model is kept with the command; what the AI service, git and the        *)
(* clipboard answer is chosen when the message is delivered.               *)
(***************************************************************************)
Msg(type) == [type |-> type]

ErrMsg(type, text) == [type |-> type, err |-> text]

\* the requests to the AI service
AIRequests ==
    { "performAIAnalysis", "generateCommitMessage", "generatePRDescription",
      "generateBranchPRDescription", "suggestImprovements", "explainChanges" }

\* the commit messages and pull request descriptions the service returns
CommitMsgs == { <<>>, <<"m">> }

PRDescs == { "", "description" }

\* the branches git.GetAllBranches and git.GetRemoteBranches list: none,
\* and more of them than the diff has files
BranchLists == { <<>>, << <<"m">>, <<"d">>, <<"r">> >> }

\* what git.GetCurrentBranch gives
CurrentBranches == { "error", "", "feature" }

\* lines 2300-2318: what StageAllFiles and CreateCommit did and the message
applyCommit(scope) ==
    (IF scope = "all"
     THEN {[stage |-> "failed", commit |-> "none",
            msg |-> ErrMsg("commitErrorMsg", "error")]}
     ELSE {})
    \cup
    { [stage |-> IF scope = "all" THEN "ok" ELSE "none", commit |-> c,
       msg |-> IF c = "ok" THEN Msg("commitAppliedMsg")
               ELSE ErrMsg("commitErrorMsg", "error")] : c \in {"ok", "failed"} }

\* lines 3160-3183
selectBranch(l) ==
    IF Len(l.items) = 0 THEN ErrMsg("branchSelectErrorMsg", "No branches available")
    ELSE IF SelectedItem(l) = <<>>
    THEN ErrMsg("branchSelectErrorMsg", "No branch selected")
    ELSE IF SelectedItem(l)[1].type # "fileItem"
    THEN ErrMsg("branchSelectErrorMsg", "Invalid branch selection")
    ELSE IF SelectedItem(l)[1].fullPath = <<>>
    THEN ErrMsg("branchSelectErrorMsg", "Selected branch name is empty")
    ELSE [type |-> "branchSelectedMsg", branch |-> SelectedItem(l)[1].fullPath]

\* the messages a command other than applyCommit may end with
Messages(c) ==
    IF c.cmd = "performAIAnalysis"
    THEN {Msg("aiAnalysisResultMsg"), ErrMsg("aiAnalysisErrorMsg", "error")}
    ELSE IF c.cmd = "generateCommitMessage"
    THEN {[type |-> "aiCommitResultMsg", commitMsg |-> t] : t \in CommitMsgs}
         \cup {ErrMsg("aiCommitErrorMsg", "error")}
    ELSE IF c.cmd \in {"generatePRDescription", "generateBranchPRDescription"}
    THEN {[type |-> "aiPRResultMsg", prDesc |-> t] : t \in PRDescs}
         \cup {ErrMsg("aiPRErrorMsg", "error")}
    ELSE IF c.cmd = "suggestImprovements"
    THEN {Msg("aiImproveResultMsg"), ErrMsg("aiImproveErrorMsg", "error")}
    ELSE IF c.cmd = "explainChanges"
    THEN {Msg("aiExplainResultMsg"), ErrMsg("aiExplainErrorMsg", "error")}
    ELSE IF c.cmd = "pushBranch"
    THEN {Msg("pushSuccessMsg"), ErrMsg("pushErrorMsg", "error")}
    ELSE IF c.cmd = "loadBranches"
    THEN {[type |-> "branchLoadResultMsg", branches |-> b] : b \in BranchLists}
         \cup {ErrMsg("branchLoadErrorMsg", "error")}
    ELSE IF c.cmd = "selectBranch" THEN {selectBranch(c.list)}
    ELSE {Msg("copySuccessMsg")}

\* the ways a command may run
Outcomes(c) ==
    IF c.cmd = "applyCommit" THEN applyCommit(c.scope)
    ELSE {[stage |-> "none", commit |-> "none", msg |-> mg] : mg \in Messages(c)}

\* the command with what its closure reads of the model
Closure(command, md) ==
    [cmd |-> command,
     scope |-> IF command = "applyCommit" THEN md.commitScope ELSE "",
     list |-> IF command = "selectBranch" THEN md.list
              ELSE [items |-> <<>>, cursor |-> 0]]

(***************************************************************************)
(* The program: Bubble Tea calls Update with one message at a time, a key, *)
(* a window size or the message of a command that has run.                 *)
(***************************************************************************)
\* commands whose message is outstanding at any one time
MaxInFlight == 2

\* characters typed into the search input
MaxQueryLen == 1

\* steps scrollOffset is followed from 0 and from BottomOffset
MaxScrollSteps == 1

\* height of the window, tea.WindowSizeMsg
Heights == {3}

ScrollRange ==
    (0..MaxScrollSteps) \cup ((BottomOffset - MaxScrollSteps)..(BottomOffset + MaxScrollSteps))

Keys ==
    RuneKeys \cup {"ctrl+c", "enter", "tab", "esc", "backspace", "ctrl+s",
                   "up", "down", "ctrl+d", "ctrl+u", "left", "right"}

\* the characters typed into the search input: one that is in a path, one
\* that is in a path in lower case, one that is in no path
TypedRunes == {"x", "G", "q"}

SearchKeys == (user.keys \ RuneKeys) \cup TypedRunes

\* the keys that scroll and do nothing else in any view but move the
\* cursor of the list
ScrollOnlyKeys == ScrollKeys \ {"up", "down"}

\* the sequence without its p-th element; the sequence itself for p = 0
Without(s, p) ==
    IF p = 0 THEN s
    ELSE [k \in 1..(Len(s) - 1) |-> IF k < p THEN s[k] ELSE s[k + 1]]

\* Update was given the message of the command at place at of inflight (0
\* for a key and a window size) and returned r.  After tea.Quit the
\* program ends: p.Run returns and RunInteractive drops the model and the
\* commands (lines 889-891).
Returns(r, at) ==
    /\ r.m.scrollOffset \in ScrollRange
    /\ Len(r.m.textInput) <= MaxQueryLen
    /\ IF r.cmd = "tea.Quit"
       THEN model' = <<>> /\ inflight' = <<>> /\ uiPc' = "quit"
       ELSE /\ model' = r.m
            /\ inflight' = IF r.cmd = "nil" THEN Without(inflight, at)
                           ELSE Append(Without(inflight, at), Closure(r.cmd, r.m))
            /\ uiPc' = uiPc
    /\ Len(inflight') <= MaxInFlight
    /\ UNCHANGED <<user, parserVars, pairVars, segVars, textVars, cmdVars>>

\* lines 961-965
WindowSizeMsg ==
    \E h \in user.heights :
        /\ uiPc = "running"
        /\ Returns(Return([model EXCEPT !.height = h], "nil"), 0)

\* lines 969-1021
FileListKey ==
    \E key \in user.keys :
        /\ uiPc = "running"
        /\ model.viewMode = "fileListView"
        /\ Returns(updateKey(model, key), 0)

\* lines 1023-1064
SearchKey ==
    \E key \in SearchKeys :
        /\ uiPc = "running"
        /\ model.viewMode = "searchMode"
        /\ Returns(updateKey(model, key), 0)

\* lines 1066-1202
AIMenuKey ==
    \E key \in user.keys :
        /\ uiPc = "running"
        /\ model.viewMode = "aiMenuView"
        /\ Returns(updateKey(model, key), 0)

\* lines 1204-1289
DiffKey ==
    \E key \in user.keys :
        /\ uiPc = "running"
        /\ model.viewMode = "diffView"
        /\ Returns(updateKey(model, key), 0)

\* lines 1291-1444
AIViewKey ==
    \E key \in user.keys :
        /\ uiPc = "running"
        /\ model.viewMode \in AIViews
        /\ Returns(updateKey(model, key), 0)

\* the command at place p of inflight has run and Update is given its
\* message
Deliver(p) ==
    /\ uiPc = "running"
    /\ \E o \in Outcomes(inflight[p]), current \in CurrentBranches :
          Returns(updateMsg(model, o.msg, current), p)

\* lines 1456-1504
AIMsg ==
    \E p \in 1..Len(inflight) : inflight[p].cmd \in AIRequests /\ Deliver(p)

\* lines 1506-1524
CommitMsg ==
    \E p \in 1..Len(inflight) :
        inflight[p].cmd \in {"applyCommit", "pushBranch"} /\ Deliver(p)

\* lines 1526-1573
BranchMsg ==
    \E p \in 1..Len(inflight) :
        inflight[p].cmd \in {"loadBranches", "selectBranch"} /\ Deliver(p)

\* lines 1575-1577
CopyMsg ==
    \E p \in 1..Len(inflight) : inflight[p].cmd = "copyToClipboard" /\ Deliver(p)

\* the paths of the files of the diffs
Paths == << <<"x">>, <<"g">> >>

FileLists == { <<>>, <<Paths[1]>>, <<Paths[2]>>, Paths }

\* the diffs runDiff parses (unnamed/part_006 367-419): the diff shown is
\* not empty
Repositories ==
    { [all |-> Paths, staged |-> s, unstaged |-> u] : s \in FileLists, u \in FileLists }

\* a repository with staged files and one without
AssistRepositories ==
    { [all |-> Paths, staged |-> s, unstaged |-> <<Paths[1]>>] :
          s \in {<<>>, <<Paths[2]>>} }

\* unnamed/part_006 421-429: the service is nil without an API key
InitInteractive(repos, service, keys, heights) ==
    /\ \E r \in repos : model = NewModel(r.all, r.staged, r.unstaged, service)
    /\ user = [keys |-> keys, heights |-> heights]
    /\ inflight = <<>>
    /\ uiPc = "running"

UiIdle ==
    /\ model = <<>>
    /\ inflight = <<>>
    /\ uiPc = "idle"
    /\ user = <<>>

(***************************************************************************)
(* The specifications: one per component.                                  *)
(***************************************************************************)
Init == InitParser /\ PairsIdle /\ SegmentsIdle /\ TextIdle /\ CmdIdle /\ UiIdle

Next == NextParser

\* ParseDiff on every text of at most MaxLines lines
Spec == Init /\ [][Next]_vars

InitPairing == ParserIdle /\ InitPairs /\ SegmentsIdle /\ TextIdle /\ CmdIdle /\ UiIdle

NextPairing == ComputeLinePairs

\* computeLinePairs on every hunk of at most MaxPairLines lines
SpecPairs == InitPairing /\ [][NextPairing]_vars

InitHighlight == ParserIdle /\ PairsIdle /\ InitSegments /\ TextIdle /\ CmdIdle /\ UiIdle

NextHighlight == SplitInlineSegments \/ BuildLineContent

\* splitInlineSegments and buildLineContent on every two strings of at most
\* MaxTextLen bytes
SpecSegments == InitHighlight /\ [][NextHighlight]_vars

InitRender ==
    /\ ParserIdle /\ TextIdle /\ CmdIdle /\ UiIdle
    /\ \/ InitPairs /\ SegmentsIdle
       \/ PairsIdle /\ InitSegments

NextRender == ComputeLinePairs \/ SplitInlineSegments \/ BuildLineContent

\* the calls of computeLinePairs, splitInlineSegments and buildLineContent
\* of the two specifications above, in one
SpecRender == InitRender /\ [][NextRender]_vars

InitUntrackedText ==
    /\ i = 0 /\ files = <<>> /\ currentFile = <<>> /\ currentHunk = <<>>
    /\ oldLineNum = 0 /\ newLineNum = 0 /\ err = FALSE /\ nonEmpty = FALSE
    /\ hist = <<>>
    /\ pc = "untracked"
    /\ InitUntracked /\ PairsIdle /\ SegmentsIdle /\ CmdIdle /\ UiIdle

NextUntracked ==
    \/ GetUntrackedFilesDiff
    \/ DiffHeader
    \/ NewFileMode
    \/ SkipMeta
    \/ SkipFilePath
    \/ HunkHeader
    \/ ContentAdded
    \/ IgnoredInHunk
    \/ Finish

\* ParseDiff on the text getUntrackedFilesDiff builds for every list of at
\* most MaxUntracked files of at most MaxContentLen bytes
SpecUntracked == InitUntrackedText /\ [][NextUntracked]_vars

InitTwoHunkText ==
    /\ InitParser /\ InitTwoHunks /\ PairsIdle /\ SegmentsIdle /\ CmdIdle /\ UiIdle

NextTwoHunks ==
    \/ DiffHeader
    \/ SkipFilePath
    \/ HunkHeader
    \/ ContentAdded
    \/ ContentDeleted
    \/ ContentUnchanged
    \/ IgnoredInHunk
    \/ Finish

InitConfig ==
    /\ ParserIdle /\ PairsIdle /\ SegmentsIdle /\ TextIdle /\ InitCommand
    /\ UiIdle

NextConfig == ApplyConfig \/ RunDiff

\* the root command under every configuration file and every command line
\* of at most MaxFlagsGiven flags
SpecConfig == InitConfig /\ [][NextConfig]_vars

\* ParseDiff on every text of one file with two hunks of the same body of
\* at most MaxBodyLines lines
SpecTwoHunks == InitTwoHunkText /\ [][NextTwoHunks]_vars

InitBrowse ==
    /\ ParserIdle /\ PairsIdle /\ SegmentsIdle /\ TextIdle /\ CmdIdle
    /\ InitInteractive(Repositories, FALSE, Keys \ ScrollOnlyKeys, {})

NextBrowse == FileListKey \/ SearchKey \/ AIMenuKey \/ DiffKey

\* the interactive program without an AI service, on every three diffs of
\* the files of Paths, under every key but those that only scroll, in a
\* window that keeps its size
SpecBrowse == InitBrowse /\ [][NextBrowse]_vars

\* the keys of the commit function of the AI menu and of its views, the
\* keys that lead to them and back, and the keys of two other AI functions
AssistKeys == { "a", "c", "i", "e", "esc", "y", "n", "r", "ctrl+s", "q" }

InitAssist ==
    /\ ParserIdle /\ PairsIdle /\ SegmentsIdle /\ TextIdle /\ CmdIdle
    /\ InitInteractive(AssistRepositories, TRUE, AssistKeys, {})

NextAssist ==
    \/ FileListKey
    \/ AIMenuKey
    \/ AIViewKey
    \/ AIMsg
    \/ CommitMsg

\* the interactive program with an AI service, with at most MaxInFlight
\* commands outstanding, under the keys of AssistKeys
SpecAssist == InitAssist /\ [][NextAssist]_vars

\* the keys of the pull request function of the AI menu: the selection of
\* the branch and the copy of the description
BranchKeys == { "a", "p", "enter", "esc", "y" }

InitBranches ==
    /\ ParserIdle /\ PairsIdle /\ SegmentsIdle /\ TextIdle /\ CmdIdle
    /\ InitInteractive(AssistRepositories, TRUE, BranchKeys, {})

NextBranches ==
    \/ FileListKey
    \/ AIMenuKey
    \/ DiffKey
    \/ AIViewKey
    \/ AIMsg
    \/ BranchMsg
    \/ CopyMsg

\* the interactive program with an AI service, with at most MaxInFlight
\* commands outstanding, under the keys of BranchKeys
SpecBranches == InitBranches /\ [][NextBranches]_vars

\* the keys that load the branches, move the cursor of the list, open what
\* it shows and collapse it
SelectKeys == { "a", "p", "esc", "G", "o", " " }

InitSelect ==
    /\ ParserIdle /\ PairsIdle /\ SegmentsIdle /\ TextIdle /\ CmdIdle
    /\ InitInteractive(AssistRepositories, TRUE, SelectKeys, {})

NextSelect ==
    \/ FileListKey
    \/ AIMenuKey
    \/ DiffKey
    \/ AIViewKey
    \/ AIMsg
    \/ BranchMsg

\* the interactive program with an AI service, with at most MaxInFlight
\* commands outstanding, under the keys of SelectKeys
SpecSelect == InitSelect /\ [][NextSelect]_vars

InitScroll ==
    /\ ParserIdle /\ PairsIdle /\ SegmentsIdle /\ TextIdle /\ CmdIdle
    /\ InitInteractive(AssistRepositories, TRUE,
                       ScrollKeys \cup {"o", "a", "c", "esc"}, Heights)

NextScroll ==
    \/ WindowSizeMsg
    \/ FileListKey
    \/ AIMenuKey
    \/ DiffKey
    \/ AIViewKey
    \/ AIMsg

\* the interactive program under the keys that scroll and the keys that
\* lead to the diff view and the AI views, under every height of Heights
SpecScroll == InitScroll /\ [][NextScroll]_vars

(***************************************************************************)
(* Properties of ParseDiff (specification Spec).                           *)
(***************************************************************************)
\* the hunks the parser holds: those of the files of the output, those of
\* the open file and the open hunk
HunksHeld ==
    UNION { {files[f].Hunks[k] : k \in 1..Len(files[f].Hunks)} : f \in 1..Len(files) }
    \cup (IF currentFile = <<>> THEN {}
          ELSE {currentFile[1].Hunks[k] : k \in 1..Len(currentFile[1].Hunks)})
    \cup (IF currentHunk = <<>> THEN {} ELSE {currentHunk[1]})

LinesHeld == UNION { {h.Lines[k] : k \in 1..Len(h.Lines)} : h \in HunksHeld }

OldSideKinds == {LineDeleted, LineUnchanged}

NewSideKinds == {LineAdded, LineUnchanged}

OldSide(l) == l.Type \in OldSideKinds

NewSide(l) == l.Type \in NewSideKinds

\* the header line a FileDiff stands for
HeaderOf(f) == DiffGitLit \o f.OldPath \o BSlashLit \o f.NewPath

\* the contents of the body lines of a hunk of the input
BodyContents(body) == [k \in 1..Len(body) |-> SubSeq(body[k], 2, Len(body[k]))]

ContentsOf(h) == [k \in 1..Len(h.Lines) |-> h.Lines[k].Content]

\* C1: every FileDiff of the output, not only the last one, holds as many
\* hunks as hunk header lines followed its `diff --git` line in the input,
\* and the lines of its last hunk are there.
C1_EveryFileKeepsItsLastHunk ==
    \A f \in 1..Len(files) :
        /\ Len(files[f].Hunks) = Len(hist[f].hunks)
        /\ Len(hist[f].hunks) > 0 =>
              ContentsOf(files[f].Hunks[Len(files[f].Hunks)])
                  = BodyContents(hist[f].hunks[Len(hist[f].hunks)].body)

\* C2: after the return, a text with k >= 1 `diff --git` lines has given
\* exactly k FileDiffs, in the order of the header lines and each with the
\* paths of its own header line; the hunk open at the end of the input is
\* the last hunk of the last FileDiff.
C2_OneFileDiffPerHeader ==
    (pc = "done" /\ Len(hist) >= 1) =>
        /\ ~err
        /\ Len(files) = Len(hist)
        /\ \A k \in 1..Len(files) : HeaderOf(files[k]) = hist[k].header
        /\ currentHunk # <<>> =>
              LET last == files[Len(files)]
              IN  /\ Len(last.Hunks) = Len(hist[Len(hist)].hunks)
                  /\ last.Hunks[Len(last.Hunks)] = currentHunk[1]

\* a run with two files of different paths, the second with an open hunk
\* that holds a line
C2_Witness ==
    /\ pc = "done"
    /\ Len(files) = 2
    /\ files[1].NewPath # files[2].NewPath
    /\ currentHunk # <<>>
    /\ Len(currentHunk[1].Lines) >= 1

\* C3: an Added line has a new number and no old number, a Deleted line an
\* old number and no new number, an Unchanged line both, 0 standing for
\* "no number"; under every hunk header the parser accepts.
C3_LineNumbersSetByKind ==
    \A l \in LinesHeld :
        /\ l.Type = LineAdded => (l.NewLineNum # 0 /\ l.OldLineNum = 0)
        /\ l.Type = LineDeleted => (l.OldLineNum # 0 /\ l.NewLineNum = 0)
        /\ l.Type = LineUnchanged => (l.OldLineNum # 0 /\ l.NewLineNum # 0)

\* the number of lines of the kinds before position j of ls
CountBefore(ls, j, kinds) ==
    Cardinality({k \in 1..(j - 1) : ls[k].Type \in kinds})

\* C4: in every hunk the old numbers count up from OldStart over the
\* Deleted and Unchanged lines and the new numbers count up from NewStart
\* over the Added and Unchanged lines, in the order of the lines; nothing
\* is carried over from the hunk or the file before.
C4_NumbersCountFromHunkStart ==
    \A h \in HunksHeld :
        \A j \in 1..Len(h.Lines) :
            LET l == h.Lines[j]
            IN  /\ OldSide(l) =>
                      l.OldLineNum = h.OldStart + CountBefore(h.Lines, j, OldSideKinds)
                /\ NewSide(l) =>
                      l.NewLineNum = h.NewStart + CountBefore(h.Lines, j, NewSideKinds)

\* a file of the output with two hunks of different starts, each holding a
\* line of either side: the counters that ran in the first hunk are set
\* again for the second
C4_Witness ==
    \E f \in 1..Len(files) :
        /\ Len(files[f].Hunks) = 2
        /\ files[f].Hunks[1].OldStart # files[f].Hunks[2].OldStart
        /\ files[f].Hunks[1].NewStart # files[f].Hunks[2].NewStart
        /\ \A k \in 1..2 : Len(files[f].Hunks[k].Lines) >= 1
        /\ files[f].Hunks[1].Lines[1].Type = LineUnchanged
        /\ files[f].Hunks[2].Lines[1].Type = LineUnchanged

\* the hunk open in the input, and its body read so far
OpenBody == hist[Len(hist)].hunks[Len(hist[Len(hist)].hunks)].body

OldSidePrefixes == {"-", " "}

NewSidePrefixes == {"+", " "}

CountText(body, prefixes) ==
    Cardinality({k \in 1..Len(body) : body[k][1] \in prefixes})

CountLines(ls, kinds) == Cardinality({k \in 1..Len(ls) : ls[k].Type \in kinds})

\* C5: when the body read for the open hunk is well formed (OldLines lines
\* that begin with '-' or ' ' and NewLines lines that begin with '+' or
\* ' '), the counters stand at OldStart + OldLines and NewStart + NewLines
\* and the hunk holds OldLines old-side and NewLines new-side lines,
\* whatever the lines contain.
C5_WellFormedHunkIsCounted ==
    (currentHunk # <<>>
        /\ CountText(OpenBody, OldSidePrefixes) = currentHunk[1].OldLines
        /\ CountText(OpenBody, NewSidePrefixes) = currentHunk[1].NewLines)
    => LET h == currentHunk[1]
       IN  /\ oldLineNum = h.OldStart + h.OldLines
           /\ newLineNum = h.NewStart + h.NewLines
           /\ CountLines(h.Lines, OldSideKinds) = h.OldLines
           /\ CountLines(h.Lines, NewSideKinds) = h.NewLines

(***************************************************************************)
(* Properties of computeLinePairs (specification SpecPairs).               *)
(***************************************************************************)
\* the 0-based indices k with a Deleted line at k and an Added line at k + 1
DeletedAddedAt(lines) ==
    {k \in 0..(Len(lines) - 2) :
        lines[k + 1].Type = LineDeleted /\ lines[k + 2].Type = LineAdded}

\* a maximal run of n deletions at p .. p + n - 1 followed by m additions
IsRun(lines, p, n, m) ==
    /\ p + n + m <= Len(lines)
    /\ \A k \in p..(p + n - 1) : lines[k + 1].Type = LineDeleted
    /\ \A k \in (p + n)..(p + n + m - 1) : lines[k + 1].Type = LineAdded
    /\ (p > 0 => lines[p].Type # LineDeleted)
    /\ (p + n + m < Len(lines) => lines[p + n + m + 1].Type # LineAdded)

Runs(lines) ==
    {r \in (0..Len(lines)) \X (1..Len(lines)) \X (1..Len(lines)) :
        IsRun(lines, r[1], r[2], r[3])}

RunKeys(m, r) == (DOMAIN m) \cap (r[1]..(r[1] + r[2] + r[3] - 1))

\* C6 as claimed: of a run of N deletions followed by M additions, min(N, M)
\* delete/add slots are paired and only |N - M| lines have no entry.
C6_RunPairsMinSlots ==
    pairPc = "done" =>
        \A r \in Runs(pairLines) :
            Cardinality(RunKeys(pairs, r)) = 2 * Min(r[2], r[3])

\* C6 as the code has it: of a run of N >= 1 deletions followed by M >= 1
\* additions exactly one slot is paired, the last deletion with the first
\* addition; the other N + M - 2 lines of the run have no entry.
C6_RunPairsOneSlot ==
    pairPc = "done" =>
        \A r \in Runs(pairLines) :
            LET d == r[1] + r[2] - 1
            IN  /\ RunKeys(pairs, r) = {d, d + 1}
                /\ pairs[d] = pairLines[d + 2].Content
                /\ pairs[d + 1] = pairLines[d + 1].Content

\* a run of at least two deletions followed by at least two additions
C6_Witness ==
    /\ pairPc = "done"
    /\ \E r \in Runs(pairLines) : r[2] >= 2 /\ r[3] >= 2

\* C7: the call leaves the lines as they are and, for every k with a
\* Deleted line at k and an Added line at k + 1, maps k to the content of
\* line k + 1 and k + 1 to the content of line k; no index is in two pairs.
C7_AdjacentPairSwapsContents ==
    [][ComputeLinePairs =>
        /\ pairLines' = pairLines
        /\ \A k \in DeletedAddedAt(pairLines) :
              /\ {k, k + 1} \subseteq DOMAIN pairs'
              /\ pairs'[k] = pairLines[k + 2].Content
              /\ pairs'[k + 1] = pairLines[k + 1].Content
        /\ \A j, k \in DeletedAddedAt(pairLines) :
              j # k => {j, j + 1} \cap {k, k + 1} = {}
      ]_vars

\* two pairs in one hunk, one of them of lines with different contents
C7_Witness ==
    /\ pairPc = "done"
    /\ \E j, k \in DeletedAddedAt(pairLines) :
          /\ j # k
          /\ pairLines[j + 1].Content # pairLines[j + 2].Content
          /\ pairs[j] = pairLines[j + 2].Content

\* C8: the keys of the map are exactly the indices of the adjacent
\* (Deleted at k, Added at k + 1) pairs.
C8_KeysAreThePairedIndices ==
    pairPc = "done" =>
        DOMAIN pairs = UNION { {k, k + 1} : k \in DeletedAddedAt(pairLines) }

\* [Deleted, Deleted, Added] has entries for the indices 1 and 2 only
C8_Witness ==
    /\ pairPc = "done"
    /\ Len(pairLines) = 3
    /\ pairLines[1].Type = LineDeleted
    /\ pairLines[2].Type = LineDeleted
    /\ pairLines[3].Type = LineAdded
    /\ DOMAIN pairs = {1, 2}

(***************************************************************************)
(* Properties of splitInlineSegments and buildLineContent (specification   *)
(* SpecSegments).                                                          *)
(***************************************************************************)
SetMax(S) == CHOOSE x \in S : \A y \in S : y <= x

\* the length of the longest common prefix of two sequences
LongestCommonPrefix(a, b) ==
    SetMax({k \in 0..Min(Len(a), Len(b)) : SubSeq(a, 1, k) = SubSeq(b, 1, k)})

\* the length of the longest common suffix of two sequences
LongestCommonSuffix(a, b) ==
    SetMax({k \in 0..Min(Len(a), Len(b)) :
               SubSeq(a, Len(a) - k + 1, Len(a)) = SubSeq(b, Len(b) - k + 1, Len(b))})

NonEmptyPart(part) == part.runes # <<>>

\* the reference segmentation of the code points t against the code points c
ReferenceParts(t, c) ==
    LET prefixLen  == LongestCommonPrefix(t, c)
        suffixLen  == LongestCommonSuffix(From(t, prefixLen + 1), From(c, prefixLen + 1))
        changedEnd == Max(prefixLen, Len(t) - suffixLen)
    IN  SelectSeq(<<[runes |-> SubSeq(t, 1, prefixLen), changed |-> FALSE],
                    [runes |-> SubSeq(t, prefixLen + 1, changedEnd), changed |-> TRUE],
                    [runes |-> From(t, changedEnd + 1), changed |-> FALSE]>>,
                  NonEmptyPart)

\* the segments returned, each text read as code points
SegmentsAsRunes ==
    [k \in 1..Len(segments) |->
        [runes |-> ToRunes(segments[k].text), changed |-> segments[k].changed]]

\* C9: for a counterpart that is not empty the segments returned are the
\* reference segmentation, in code points, of the text against the
\* counterpart; the common prefix and suffix do not overlap; a text equal
\* to its counterpart gives one unchanged segment.
C9_SegmentsAreTheReferenceParts ==
    (segPc = "split" /\ segCounterpart # <<>>) =>
        LET t == ToRunes(segText)
            c == ToRunes(segCounterpart)
            p == LongestCommonPrefix(t, c)
        IN  /\ SegmentsAsRunes = ReferenceParts(t, c)
            /\ p + LongestCommonSuffix(From(t, p + 1), From(c, p + 1))
                   <= Min(Len(t), Len(c))
            /\ segText = segCounterpart =>
                   SegmentsAsRunes = <<[runes |-> t, changed |-> FALSE]>>

\* a text cut into an unchanged prefix, a changed middle and an unchanged
\* suffix
C9_Witness ==
    /\ segPc = "split"
    /\ segCounterpart # <<>>
    /\ Len(segments) = 3
    /\ segments[2].changed

\* C10: for an empty counterpart splitInlineSegments returns no segment and
\* buildLineContent returns the whole content of the line, as it is, with
\* no inline highlight.
C10_EmptyCounterpartNoHighlight ==
    segCounterpart = <<>> =>
        /\ segPc = "split" => segments = <<>>
        /\ segPc = "built" =>
              /\ Len(rendered.pieces) = 1
              /\ rendered.pieces[1].text = segText
              /\ rendered.pieces[1].style \in {"plain", "syntax"}

\* a coloured line of two or more bytes rendered without a counterpart
C10_Witness ==
    /\ segPc = "built"
    /\ segCounterpart = <<>>
    /\ rendered.useColor
    /\ Len(segText) >= 2

(***************************************************************************)
(* Properties of ParseDiff at the ends of the input (specification Spec).  *)
(***************************************************************************)
\* C11: ParseDiff on the empty text returns an empty sequence of FileDiffs
\* and no error.
C11_EmptyTextGivesNoFiles ==
    (pc = "done" /\ i = 0) => (files = <<>> /\ ~err)

\* the return for the empty text: no line was read
C11_Witness ==
    /\ pc = "done"
    /\ i = 0
    /\ ~nonEmpty
    /\ currentFile = <<>>

\* C12 as claimed: every text that holds no `diff --git` line, the empty
\* text among them, gives the error and no FileDiff.
C12_NoHeaderIsAlwaysAnError ==
    (pc = "done" /\ hist = <<>>) => (err /\ files = <<>>)

\* C12 as the code has it: a text that is not empty and holds no
\* `diff --git` line gives the error and no FileDiff; no FileDiff is ever
\* returned with the error.
C12_NoHeaderIsAnError ==
    pc = "done" =>
        /\ (i >= 1 /\ hist = <<>>) => (err /\ files = <<>>)
        /\ err => files = <<>>

\* the error after three lines or more, none of them a `diff --git` line
C12_Witness ==
    /\ pc = "done"
    /\ err
    /\ i >= 3
    /\ hist = <<>>

\* C13: with a file open, reading a hunk header line whose old start or old
\* count is not a number raises no error and opens a new Hunk with no lines
\* yet, the field that is not a number being 0, so that the content lines
\* that follow go to the new hunk.
C13_MalformedHeaderOpensHunk ==
    [][\A line \in MalformedHunkLines :
          (Reading /\ currentFile # <<>> /\ Step(line)) =>
              /\ ~err'
              /\ currentHunk' # <<>>
              /\ currentHunk'[1].Lines = <<>>
              /\ line = HunkBadStartLine => currentHunk'[1].OldStart = 0
              /\ line = HunkBadCountLine => currentHunk'[1].OldLines = 0
      ]_vars

\* C15: every `diff --git` line gives a FileDiff; one that no hunk header
\* line followed has no hunks, and its flags are those of the flag lines
\* that followed its own header line.
C15_FileWithoutHunksIsKept ==
    pc = "done" =>
        /\ Len(files) = Len(hist)
        /\ \A f \in 1..Len(files) :
              hist[f].hunks = <<>> =>
                  /\ HeaderOf(files[f]) = hist[f].header
                  /\ files[f].Hunks = <<>>
                  /\ files[f].IsNew = (NewFileModeLit \in hist[f].flags)
                  /\ files[f].IsDeleted = (DeletedFileModeLit \in hist[f].flags)
                  /\ files[f].IsRenamed = (RenameFromLit \in hist[f].flags)

\* a renamed file without hunks followed by a new file without hunks
C15_Witness ==
    /\ pc = "done"
    /\ Len(files) = 2
    /\ hist[1].hunks = <<>> /\ hist[2].hunks = <<>>
    /\ files[1].IsRenamed /\ ~files[1].IsNew
    /\ files[2].IsNew /\ ~files[2].IsRenamed

(***************************************************************************)
(* Properties of ParseDiff on a file with two hunks (specification         *)
(* SpecTwoHunks).                                                          *)
(***************************************************************************)
\* HunkPlainLine and the lines that write one or both of its counts as 1
OnesForms == { HunkPlainLine, HunkOnesLine, HunkMixedLine }

\* C14: a hunk header with a count left out is parsed like the same header
\* with the count 1: the Hunk has OldLines = NewLines = 1 and the starts of
\* the header, and two such headers followed by the same body give equal
\* Hunks; a count written as 0 stays 0.
C14_OmittedCountIsOne ==
    pc = "done" =>
        LET hs == files[1].Hunks
            hh == hist[1].hunks
        IN  /\ Len(hs) = 2
            /\ \A k \in 1..2 :
                  /\ hh[k].header \in OnesForms =>
                        /\ hs[k].OldLines = 1 /\ hs[k].NewLines = 1
                        /\ hs[k].OldStart = 2 /\ hs[k].NewStart = 3
                  /\ hh[k].header = HunkNoneLine =>
                        hs[k].OldLines = 0 /\ hs[k].NewLines = 0
            /\ ({hh[1].header, hh[2].header} \subseteq OnesForms
                    /\ hh[1].body = hh[2].body) => hs[1] = hs[2]

\* `@@ -2 +3 @@` and `@@ -2,1 +3,1 @@` followed by the same two lines or
\* more
C14_Witness ==
    /\ pc = "done"
    /\ hist[1].hunks[1].header = HunkPlainLine
    /\ hist[1].hunks[2].header = HunkOnesLine
    /\ Len(files[1].Hunks[1].Lines) >= 2
    /\ files[1].Hunks[1] = files[1].Hunks[2]

\* an empty line, a `\` line, and a line of another first character than
\* '+', '-' and ' ' that no earlier test of the loop takes for a
\* `diff --git` line, a flag line or a hunk header line
IsIgnoredLine(line) ==
    IF Len(line) = 0 THEN TRUE
    ELSE IF line[1] = "\\" THEN TRUE
    ELSE /\ line[1] \notin ContentPrefixes
         /\ ~MatchDiffHeader(line).ok
         /\ ~IsFlagLine(line)
         /\ ~MatchHunkHeader(line).ok

\* C16: while a hunk is open, reading an empty line, a `\` line or a line
\* with an unrecognized first character appends no Line, changes neither
\* counter and leaves the open hunk, the open file and the output as they
\* are.
C16_IgnoredLineChangesNothing ==
    [][\A line \in InputLines :
          (Reading /\ currentHunk # <<>> /\ IsIgnoredLine(line) /\ Step(line)) =>
              UNCHANGED <<files, currentFile, currentHunk, oldLineNum, newLineNum>>
      ]_vars

\* the line "x" was read in the second hunk, after a content line of it
C16_Witness ==
    /\ pc = "loop"
    /\ i >= 1
    /\ diffText[i] = <<"x">>
    /\ currentHunk # <<>>
    /\ Len(currentHunk[1].Lines) >= 1
    /\ Len(currentFile[1].Hunks) = 1

(***************************************************************************)
(* Properties of ParseDiff on the text of getUntrackedFilesDiff            *)
(* (specification SpecUntracked).                                          *)
(***************************************************************************)
\* C17: the block written for an untracked file whose content splits into
\* n lines is parsed into a FileDiff with IsNew set and one hunk of exactly
\* n Added lines, their contents the lines of the file in order and their
\* new line numbers 1..n.
C17_UntrackedBlockRoundTrip ==
    pc = "done" =>
        /\ ~err
        /\ Len(files) = Len(untracked)
        /\ \A f \in 1..Len(untracked) :
              LET lines == Split(untracked[f].content)
              IN  /\ files[f].IsNew
                  /\ files[f].NewPath = untracked[f].path
                  /\ Len(files[f].Hunks) = 1
                  /\ Len(files[f].Hunks[1].Lines) = Len(lines)
                  /\ \A k \in 1..Len(lines) :
                        files[f].Hunks[1].Lines[k] =
                            [Type |-> LineAdded, Content |-> lines[k],
                             OldLineNum |-> 0, NewLineNum |-> k]

(***************************************************************************)
(* Properties of computeLinePairs and splitInlineSegments together         *)
(* (specification SpecRender).                                             *)
(***************************************************************************)
\* the code points of the segments from the k-th on, joined
RECURSIVE JoinedRunes(_, _)
JoinedRunes(segs, k) ==
    IF k > Len(segs) THEN <<>>
    ELSE ToRunes(segs[k].text) \o JoinedRunes(segs, k + 1)

\* C18: no call of computeLinePairs or splitInlineSegments panics at an
\* index or a slice out of range, and every call returns a valid result: a
\* map from indices of the lines to contents of the lines, and segments
\* that are not empty and make up the text.
C18_PairingAndSegmentsAreTotal ==
    /\ pairPc # "panic"
    /\ segPc # "panic"
    /\ pairPc = "done" =>
          \A k \in DOMAIN pairs :
              /\ InRange(pairLines, k)
              /\ \E j \in 1..Len(pairLines) : pairs[k] = pairLines[j].Content
    /\ segPc = "split" =>
          /\ \A k \in 1..Len(segments) : segments[k].text # <<>>
          /\ segments # <<>> => JoinedRunes(segments, 1) = ToRunes(segText)

\* a text that is a proper prefix of its counterpart
C18_Witness ==
    /\ segPc = "split"
    /\ segText # <<>>
    /\ Len(segText) < Len(segCounterpart)
    /\ SubSeq(segCounterpart, 1, Len(segText)) = segText
    /\ Len(segments) = 1

(***************************************************************************)
(* Properties of the root command (specification SpecConfig).              *)
(***************************************************************************)
GivenTrue(name) == IF Changed(name) THEN given[name] ELSE FALSE

\* C19: a flag given on the command line decides the setting runDiff works
\* with, whatever the configuration file says: interactive, unified and
\* no-color are the values given, and when --staged or --cached is given
\* the diff mode is the staged one exactly if one of them is given as true.
C19_FlagsOverrideConfig ==
    cmdPc = "run" =>
        /\ Changed("interactive") => settings.interactive = given["interactive"]
        /\ Changed("unified") => settings.unified = given["unified"]
        /\ Changed("no-color") => settings.useColor = ~given["no-color"]
        /\ (Changed("staged") \/ Changed("cached")) =>
              ((settings.diffMode = GitDiffModeStaged)
                   <=> (GivenTrue("staged") \/ GivenTrue("cached")))

\* a six-digit hex color, with or without '#', or no color at all
IsHexColorOrNone(value) ==
    LET hex == TrimPrefix(TrimSpace(value), <<"#">>)
    IN  \/ TrimSpace(value) = <<>>
        \/ Len(hex) = 6 /\ \A k \in 1..6 : hex[k] \in HexDigits

\* C20: a configuration file whose added_text_color or deleted_text_color
\* is not a hex color is loaded all the same: applyConfig does not fail,
\* the color counts as left out, and the other fields of the file apply.
C20_InvalidColorIsIgnored ==
    (/\ cmdPc # "flags"
     /\ configFile.kind = "config"
     /\ \/ ~IsHexColorOrNone(configFile.cfg.AddedTextColor)
        \/ ~IsHexColorOrNone(configFile.cfg.DeletedTextColor))
    => /\ cmdPc # "failed"
       /\ appConfig # <<>>
       /\ ~IsHexColorOrNone(configFile.cfg.AddedTextColor) =>
              appConfig[1].AddedTextColor = <<>>
       /\ ~IsHexColorOrNone(configFile.cfg.DeletedTextColor) =>
              appConfig[1].DeletedTextColor = <<>>
       /\ appConfig[1].Interactive = configFile.cfg.Interactive
       /\ appConfig[1].Unified = configFile.cfg.Unified
       /\ appConfig[1].NoColor = configFile.cfg.NoColor
       /\ appConfig[1].DiffMode = ToLower(TrimSpace(configFile.cfg.DiffMode))
       /\ appConfig[1].DiffStyle = ToLower(TrimSpace(configFile.cfg.DiffStyle))

(***************************************************************************)
(* Properties of ParseDiff on the content lines of a hunk (specification   *)
(* SpecTwoHunks).                                                          *)
(***************************************************************************)
\* the Line the switch of lines 162-190 builds for a content line
LineOfContent(line) ==
    [Type |-> SwitchCase(line[1]), Content |-> ContentOf(line)]

\* C22: while a hunk is open, every line read whose first character is
\* '+', '-' or ' ' appends exactly one Line to the hunk, of the type of
\* that character and with the rest of the line as its content, whatever
\* the content is.
C22_NoContentLineIsLost ==
    [][\A line \in InputLines :
          (/\ Reading
           /\ currentHunk # <<>>
           /\ Len(line) > 0
           /\ line[1] \in ContentPrefixes
           /\ Step(line))
          => /\ currentHunk' # <<>>
             /\ Len(currentHunk'[1].Lines) = Len(currentHunk[1].Lines) + 1
             /\ LET l == currentHunk'[1].Lines[Len(currentHunk'[1].Lines)]
                IN  [Type |-> l.Type, Content |-> l.Content] = LineOfContent(line)
      ]_vars

(***************************************************************************)
(* Properties of splitInlineSegments on the bytes of the text              *)
(* (specification SpecSegments).                                           *)
(***************************************************************************)
\* the bytes of the segments from the k-th on, joined
RECURSIVE JoinedBytes(_, _)
JoinedBytes(segs, k) ==
    IF k > Len(segs) THEN <<>>
    ELSE segs[k].text \o JoinedBytes(segs, k + 1)

\* C23: the segments returned, when there are any, join to the text byte
\* for byte, none is empty, there are at most three and at most one is
\* marked changed; the pieces buildLineContent writes join to the content.
C23_SegmentsJoinToTheText ==
    /\ (segPc = "split" /\ segments # <<>>) =>
          /\ JoinedBytes(segments, 1) = segText
          /\ \A k \in 1..Len(segments) : segments[k].text # <<>>
          /\ Len(segments) <= 3
          /\ Cardinality({k \in 1..Len(segments) : segments[k].changed}) <= 1
    /\ segPc = "built" => JoinedBytes(rendered.pieces, 1) = segText

(***************************************************************************)
(* Properties of the interactive program (specifications SpecBrowse,       *)
(* SpecAssist, SpecBranches, SpecSelect and SpecScroll).                   *)
(***************************************************************************)
\* the items of the list are file items of the current filter, each one of
\* m.fileItems and in their order
HoldsFileItems(md) ==
    \E keep \in SUBSET (1..Len(md.fileItems)) :
        md.list.items = SelectSeq(md.fileItems,
                                  LAMBDA it : it.index + 1 \in keep)

\* C21: whenever viewMode is fileListView the list holds file items of the
\* current filter (m.fileItems or a part of them), never the items of the
\* AI menu and never branches.  Violated: esc in an AI view (line 1315)
\* goes to the file list and leaves in the list the items of the AI menu.
C21_FileListHoldsFileItems ==
    (uiPc = "running" /\ model.viewMode = "fileListView") => HoldsFileItems(model)

\* ordinary characters typed into the commit message
EditKeys == {"q", "a", "e", "r", "y", "n", "j", "k"}

\* C24: in aiCommitEditView an ordinary character goes to the textarea and
\* to nothing else: Update returns no command, the textarea has the
\* character appended and every other field of the model is as it was.
\* Violated: the view is one of the case of line 1291, so 'q' quits, 'r'
\* sets aiLoading, 'j' scrolls and no key reaches the textarea.
C24_EditKeysGoToTheTextarea ==
    (uiPc = "running" /\ model.viewMode = "aiCommitEditView") =>
        \A key \in EditKeys :
            /\ updateKey(model, key).cmd = "nil"
            /\ updateKey(model, key).m =
                   [model EXCEPT !.textarea = Append(@, key)]

\* C25: aiLoading is false only when no request to the AI service is
\* outstanding.  Violated: esc in an AI view sets aiLoading = false while
\* the request runs on (line 1316), and the message of any request, an
\* abandoned one too, sets aiLoading = false while a later one runs
\* (lines 1456-1504).
C25_NotLoadingMeansNoRequest ==
    (uiPc = "running" /\ ~model.aiLoading) =>
        \A p \in 1..Len(inflight) : inflight[p].cmd \notin AIRequests

\* C26: selectedIdx is -1 or the index of a file of m.files, and the keys
\* of m.collapsed are indices of files of m.files.  Violated: 'o' and
\* 'enter' take the index of the selected item for an index of m.files
\* (lines 1002-1006), also when the list holds the branches of line 1538.
C26_SelectedIdxIsAFile ==
    uiPc = "running" =>
        /\ model.selectedIdx \in (-1)..(Len(model.files) - 1)
        /\ DOMAIN model.collapsed \subseteq 0..(Len(model.files) - 1)

\* the model after the message of the outcome o of a command
AfterOutcome(md, o) == updateMsg(md, o.msg, "feature").m

\* C27: a key issues pushBranch only in aiCommitView with commitApplied
\* true and applyCommit only in aiCommitView with a commit message, and
\* no key changes commitApplied; no message issues either command;
\* commitApplied is true after the message of a commit that was created
\* and false after the message of one that failed; and with scope "all"
\* CreateCommit runs only after StageAllFiles succeeded.
C27_CommitBeforePush ==
    uiPc = "running" =>
        /\ \A key \in Keys :
              LET r == updateKey(model, key)
              IN  /\ r.cmd = "pushBranch" =>
                        model.viewMode = "aiCommitView" /\ model.commitApplied
                  /\ r.cmd = "applyCommit" =>
                        model.viewMode = "aiCommitView" /\ model.aiCommitMsg # <<>>
                  /\ r.m.commitApplied = model.commitApplied
        /\ \A p \in 1..Len(inflight) : \A o \in Outcomes(inflight[p]) :
              /\ updateMsg(model, o.msg, "feature").cmd \notin {"pushBranch", "applyCommit"}
              /\ IF inflight[p].cmd = "applyCommit"
                 THEN /\ AfterOutcome(model, o).commitApplied = (o.commit = "ok")
                      /\ o.msg.type = (IF o.commit = "ok" THEN "commitAppliedMsg"
                                       ELSE "commitErrorMsg")
                      /\ (inflight[p].scope = "all" /\ o.commit # "none") =>
                             o.stage = "ok"
                 ELSE /\ AfterOutcome(model, o).commitApplied = model.commitApplied
                      /\ o.commit = "none"

\* a commit of all files was applied and its push is outstanding
C27_Witness ==
    /\ uiPc = "running"
    /\ model.commitApplied
    /\ model.commitScope = "all"
    /\ \E p \in 1..Len(inflight) : inflight[p].cmd = "pushBranch"

\* the views the program shows without an AI service
PlainViews == {"fileListView", "diffView", "searchMode", "aiMenuView"}

\* C28: without an AI service (m.aiService == nil) the view is one of
\* fileListView, diffView, searchMode and aiMenuView, no command is
\* outstanding, and no key issues a command other than tea.Quit or leads
\* to another view.
C28_NoServiceNoAICommand ==
    (uiPc = "running" /\ ~model.aiService) =>
        /\ model.viewMode \in PlainViews
        /\ inflight = <<>>
        /\ \A key \in Keys :
              /\ updateKey(model, key).cmd \in {"nil", "tea.Quit"}
              /\ updateKey(model, key).m.viewMode \in PlainViews
              /\ ~updateKey(model, key).m.aiLoading

\* the AI menu is open without a service, the commit function is selected
\* and enter does nothing
C28_Witness ==
    /\ uiPc = "running"
    /\ ~model.aiService
    /\ model.viewMode = "aiMenuView"
    /\ SelectedItem(model.list) = <<AIMenuItem("aiCommitView")>>
    /\ updateKey(model, "enter") = Return(model, "nil")

\* the file selected in md: its NewPath in a one-element sequence, << >>
\* when selectedIdx is no index of md.files
SelectedPath(md) ==
    IF md.selectedIdx \in 0..(Len(md.files) - 1)
    THEN <<md.files[md.selectedIdx + 1]>> ELSE <<>>

FilterModes == {filterAll, filterStaged, filterUnstaged}

\* C29: after applyFilter(f) filterMode is f, files is the slice of f,
\* scrollOffset is 0, every collapsed flag is false, and selectedIdx is -1
\* when the slice is empty, else the first index of the path that was
\* selected when the slice has it, else 0.  cycleFilter goes from All to
\* Staged to Unstaged to All, so three of them restore filterMode and
\* files.
C29_ApplyFilterKeepsSelection ==
    uiPc = "running" =>
        /\ \A f \in FilterModes :
              LET r == applyFilter(model, f)
                  slice == IF f = filterAll THEN model.allFiles
                           ELSE IF f = filterStaged THEN model.stagedFiles
                           ELSE model.unstagedFiles
                  has == /\ SelectedPath(model) # <<>>
                         /\ \E k \in 1..Len(slice) : slice[k] = SelectedPath(model)[1]
              IN  /\ r.filterMode = f
                  /\ r.files = slice
                  /\ r.scrollOffset = 0
                  /\ \A k \in DOMAIN r.collapsed : ~r.collapsed[k]
                  /\ IF slice = <<>> THEN r.selectedIdx = -1
                     ELSE IF has
                     THEN /\ r.selectedIdx \in 0..(Len(slice) - 1)
                          /\ slice[r.selectedIdx + 1] = SelectedPath(model)[1]
                          /\ \A k \in 1..r.selectedIdx :
                                 slice[k] # SelectedPath(model)[1]
                     ELSE r.selectedIdx = 0
        /\ cycleFilter(model).filterMode =
               (IF model.filterMode = filterAll THEN filterStaged
                ELSE IF model.filterMode = filterStaged THEN filterUnstaged
                ELSE filterAll)
        /\ cycleFilter(cycleFilter(cycleFilter(model))).filterMode = model.filterMode
        /\ cycleFilter(cycleFilter(cycleFilter(model))).files = model.files

\* 'f' has led to the unstaged files, whose only file is the second of all
\* files, and the next filter keeps it selected at index 1
C29_Witness ==
    /\ uiPc = "running"
    /\ model.filterMode = filterUnstaged
    /\ model.files = <<Paths[2]>>
    /\ model.selectedIdx = 0
    /\ cycleFilter(model).selectedIdx = 1

\* heights of the window and numbers of lines of a rendered diff
MaxHeight == 9

MaxTotalLines == 12

\* C30: in the diff view and the AI views scrollOffset is not negative and
\* no scroll key makes it negative, whatever the height of the window;
\* and renderDiff shows a window with
\* 0 <= scrollOffset <= endLine <= totalLines and divides by maxScroll
\* only when maxScroll > 0.
C30_ScrollingIsSafe ==
    (uiPc = "running" /\ model.viewMode \in AIViews \cup {"diffView"}) =>
        /\ model.scrollOffset >= 0
        /\ \A h \in 0..MaxHeight :
              /\ \A key \in ScrollKeys :
                    updateKey([model EXCEPT !.height = h], key).m.scrollOffset >= 0
              /\ model.viewMode = "diffView" =>
                    \A totalLines \in 0..MaxTotalLines :
                        LET r == renderDiff([model EXCEPT !.height = h], totalLines)
                        IN  /\ 0 <= r.scrollOffset
                            /\ r.scrollOffset <= r.endLine
                            /\ r.endLine <= totalLines
                            /\ r.indicator => r.maxScroll > 0

\* the diff view was scrolled to the bottom and a step up, and renderDiff
\* shows the last lines of a diff that is longer than the window
C30_Witness ==
    /\ uiPc = "running"
    /\ model.viewMode = "diffView"
    /\ model.height = 3
    /\ model.scrollOffset = BottomOffset - 1
    /\ renderDiff(model, 12) =
           [scrollOffset |-> 2, endLine |-> 12, maxScroll |-> 2, indicator |-> TRUE]

=============================================================================
